---- MODULE Spec2Model ----
(***************************************************************************)
(* A model of the tsuki command line tool: the build pipeline              *)
(* (build.Run over core.Transpile), the check command (check.Run over      *)
(* core.Check), the upload command (flash.Run), the incremental compile of  *)
(* the tsuki-flash build engine, one run of the transpiler, and the        *)
(* package side: installs, registries, the package index, the config, the  *)
(* manifest's dependencies, the lock file and the updatedb command.        *)
(*                                                                         *)
(* Text is modelled as follows.  A line is a sequence of words (strings);  *)
(* an output stream is a sequence of newline-terminated lines; a path is   *)
(* the sequence <<directory, base name, extension>>.                       *)
(***************************************************************************)
EXTENDS Integers, Sequences, FiniteSets, TLC

\* --------------------------------------------------------------- bounds
MaxPkgs == 2
MaxDiags == 2
MaxPorts == 2
MaxUnits == 2
MaxWorkers == 2
MaxRuns == 2
MaxEdits == 2
MaxOutLines == 2
MaxStmts == 2
MaxInstalls == 2
MaxKeys == 2
MaxRegs == 2
MaxUrls == 2
MaxListed == 2
MaxNameLen == 3
MaxBuilds == 2

\* ------------------------------------------------------------ universes
\* The .go files a project's src/ may hold, as filepath.Glob orders them.
FileNames == <<"blink", "main">>
PkgUniverse == <<"dht", "servo", "ws2812", "oled">>
NoErr == "none"

RECURSIVE Flatten(_)
Flatten(ss) == IF ss = <<>> THEN <<>> ELSE Head(ss) \o Flatten(Tail(ss))

\* The strictly increasing sequences over 1..n: what a glob of n candidate
\* names can return (filepath.Glob returns its matches sorted).
RECURSIVE SortedPicks(_)
SortedPicks(n) ==
  IF n = 0 THEN {<<>>}
  ELSE SortedPicks(n - 1) \cup {Append(s, n) : s \in SortedPicks(n - 1)}

\* The duplicate-free sequences over the set S.
RECURSIVE Arrangements(_)
Arrangements(S) ==
  {<<>>} \cup UNION {{<<x>> \o s : s \in Arrangements(S \ {x})} : x \in S}

\* ---------------------------------------------------------------- text
\* strings.ToLower on the words the transpiler's diagnostics and the package
\* indexes use.
ToLower(w) ==
  CASE w = "errorCount" -> "errorcount"
    [] w = "Motor" -> "motor"
    [] w = "DefaultBoard" -> "defaultboard"
    [] w = "DefaultBaud" -> "defaultbaud"
    [] w = "Verbose" -> "verbose"
    [] w = "RegistryURLs" -> "registryurls"
    [] OTHER -> w

\* strings.Contains(word, sub) for an already lower-cased word.
WordContains(w, sub) ==
  CASE sub = "warning" -> w \in {"warning:", "warnings"}
    [] sub = "error" -> w \in {"error:", "errorcount", "errors"}
    [] OTHER -> FALSE

IsSpace(w) == w \in {" ", "\t", ""}

\* strings.Contains(strings.ToLower(line), sub)
LineContainsLower(line, sub) ==
  \E i \in 1..Len(line) : WordContains(ToLower(line[i]), sub)

RECURSIVE TrimLeft(_)
TrimLeft(line) ==
  IF line # <<>> /\ IsSpace(Head(line)) THEN TrimLeft(Tail(line)) ELSE line

RECURSIVE TrimRight(_)
TrimRight(line) ==
  IF line # <<>> /\ IsSpace(line[Len(line)])
  THEN TrimRight(SubSeq(line, 1, Len(line) - 1))
  ELSE line

\* strings.TrimSpace
TrimSpace(line) == TrimRight(TrimLeft(line))

\* strings.Split(output, "\n"): the lines, then the empty rest after the last
\* newline.
SplitLines(output) == Append(output, <<>>)

RECURSIVE SelectTrimmed(_, _)
SelectTrimmed(lines, sub) ==
  IF lines = <<>> THEN <<>>
  ELSE IF LineContainsLower(Head(lines), sub)
       THEN <<TrimSpace(Head(lines))>> \o SelectTrimmed(Tail(lines), sub)
       ELSE SelectTrimmed(Tail(lines), sub)

parseWarnings(output) == SelectTrimmed(SplitLines(output), "warning")

parseErrors(output) == SelectTrimmed(SplitLines(output), "error")

\* ------------------------------------------- the transpiler process
\* tsuki-core is a separate binary; what it prints is fixed by its interface:
\* every diagnostic goes to stderr as a header line "<severity>: <message>", a
\* location line "--> file:line" and a line of source context, and the exit
\* status is zero only if no error diagnostic was produced.
DiagKinds == {"E_call", "E_str", "W_unused", "W_errvar"}

DiagSeverity(d) == IF d \in {"E_call", "E_str"} THEN "error" ELSE "warning"

DiagLines(d) ==
  CASE d = "E_call" ->
         << <<"error:", "unknown", "call", "foo">>,
            <<" ", "-->", "main.go:3">>,
            <<" ", "3", "|", "foo()">> >>
    [] d = "E_str" ->
         << <<"error:", "unterminated", "string", "literal">>,
            <<" ", "-->", "main.go:5">>,
            <<" ", "5", "|", "s", ":=", "\"abc">> >>
    [] d = "W_unused" ->
         << <<"warning:", "unused", "variable", "warnings">>,
            <<" ", "-->", "main.go:7">>,
            <<" ", "7", "|", "warnings", ":=", "1">> >>
    [] d = "W_errvar" ->
         << <<"warning:", "unused", "variable", "errorCount">>,
            <<" ", "-->", "main.go:9">>,
            <<" ", "9", "|", "errorCount", ":=", "0">> >>

RECURSIVE RenderDiags(_)
RenderDiags(ds) ==
  IF ds = <<>> THEN <<>> ELSE DiagLines(Head(ds)) \o RenderDiags(Tail(ds))

DiagSeqs == UNION {[1..n -> DiagKinds] : n \in 0..MaxDiags}

HasErrorDiag(ds) == \E i \in 1..Len(ds) : DiagSeverity(ds[i]) = "error"

\* Exit status 2 stands for a run that died without a diagnostic (the binary
\* could not be started, or was killed).
CoreExits(ds) == IF HasErrorDiag(ds) THEN {1} ELSE {0, 2}

CoreOutcomes ==
  UNION {{[diags |-> ds, exit |-> e, stdout |-> <<>>, stderr |-> RenderDiags(ds)] :
            e \in CoreExits(ds)} : ds \in DiagSeqs}

CountSeverity(ds, sev) ==
  Cardinality({i \in 1..Len(ds) : DiagSeverity(ds[i]) = sev})

\* The header lines of the diagnostics of one severity, in order.
HeaderLines(ds, sev) ==
  LET pick == SelectSeq(ds, LAMBDA d : DiagSeverity(d) = sev)
  IN  [i \in 1..Len(pick) |-> DiagLines(pick[i])[1]]

\* ------------------------------------------------------- core.Transpiler
BoardArg == <<"uno">>
LibsDirArg == <<"libs">>

\* The argument list of one transpile run (core.go, Transpile).
TranspileArgs(req) ==
  <<req.InputFile, req.OutputFile, <<"--board">>, req.Board>>
    \o (IF req.SourceMap THEN << <<"--source-map">> >> ELSE <<>>)
    \o (IF req.LibsDir # <<>> THEN << <<"--libs-dir">>, req.LibsDir >> ELSE <<>>)
    \o (IF Len(req.PkgNames) > 0
        THEN << <<"--packages">>, req.PkgNames >> ELSE <<>>)

NilTranspileResult == [nil |-> TRUE, OutputFile |-> <<>>, Warnings |-> <<>>]

\* Transpile, had it not looked at the exit status of the process.
TranspileIgnoresExit(req, out) ==
  [res |-> [nil |-> FALSE, OutputFile |-> req.OutputFile,
            Warnings |-> parseWarnings(out.stderr)],
   err |-> NoErr]

\* Transpile, had it treated a warning on stderr as a failure.
TranspileWarningsFatal(req, out) ==
  IF out.exit # 0 \/ parseWarnings(out.stderr) # <<>>
  THEN [res |-> NilTranspileResult, err |-> "transpilation failed"]
  ELSE [res |-> [nil |-> FALSE, OutputFile |-> req.OutputFile,
                 Warnings |-> parseWarnings(out.stderr)],
        err |-> NoErr]

\* Transpile's return value for a run of the process that ended as `out`.
Transpile(req, out) ==
  IF out.exit # 0
  THEN [res |-> NilTranspileResult, err |-> "transpilation failed"]
  ELSE [res |-> [nil |-> FALSE, OutputFile |-> req.OutputFile,
                 Warnings |-> parseWarnings(out.stderr)],
        err |-> NoErr]

\* The argument list of one check run (core.go, Check).
CheckArgs(inputFile, board, libsDir, pkgNames) ==
  <<inputFile, <<"--board">>, board, <<"--check">>>>
    \o (IF libsDir # <<>> THEN << <<"--libs-dir">>, libsDir >> ELSE <<>>)
    \o (IF Len(pkgNames) > 0 THEN << <<"--packages">>, pkgNames >> ELSE <<>>)

\* Check's return values for a run of the process that ended as `out`.
Check(out) ==
  LET combined == out.stdout \o out.stderr
  IN  [warnings |-> parseWarnings(combined),
       errors |-> parseErrors(out.stderr),
       err |-> IF out.exit # 0 THEN "check failed" ELSE NoErr]

\* ------------------------------------------------------------- state
VARIABLES
  \* build.Run: the project, the options and the machine it runs on
  goFiles,        \* filepath.Glob(src/*.go): the base names, sorted
  mPackages,      \* m.Packages: the declared dependencies, in manifest order
  libs,           \* the libs directory: <<name, version, manifest file>>
  opts,           \* Options: [Compile, Backend]
  \* build.Run: its position and what it has done
  bPc,            \* "start", "transpile", "compile", "done"
  bIdx,           \* the index in goFiles of the next file to transpile
  bInvocations,   \* the transpiler runs so far: [args, exit, diags]
  bResult,        \* the *Result being built
  bReturn,        \* what Run returned: [result, err, pkgs named in err]
  inoWritten,     \* whether <sketchDir>/<sketchName>.ino has been written
  compilerInvoked, \* the compile backend that was run, "" for none
  \* check.Run: its position and what it has done
  cPc,            \* "start", "check", "done"
  cIdx,           \* the index in goFiles of the next file to check
  cRuns,          \* the transpiler runs so far: [file, args, exit, diags]
  report,         \* the *Report being built
  cReturn,        \* what Run returned: [returned, report, err]
  \* flash.Run: the options, the machine, its position and what it has done
  uOpts,          \* Options: [Port, Backend, Board]
  uPc,            \* "start", "upload", "done"
  uPort,          \* the port the programmer is given
  uDetected,      \* the device rows the detect command printed
  programmerRuns, \* the programmer runs so far: [bin, args, exit, out]
  uReturn,        \* what Run returned: [returned, err, text]
  uTraceback,     \* the FlashError traceback shown: [shown, msg]
  \* the build engine's compile: the sketch, the toolchain and the cache
  eSrc,           \* the content hash of each translation unit
  eFlags,         \* the fingerprint of the active compiler flags
  eSdk,           \* the installed SDK version
  manifest,       \* the persisted cache manifest: [sdk, entries]
  ePhase,         \* "idle", "compiling", "joined", "writing", "linking"
  eStatus,        \* per unit: "idle", "cached", "pending", "running", "ok", "failed"
  eWriters,       \* the manifest writes in progress
  eFirmware,      \* whether the current run has linked firmware
  eSnap,          \* the manifest entries the current run loaded
  eRecompiled,    \* the units the current run has handed to the compiler
  eRuns,          \* the runs started so far
  eEdits,         \* the changes made to the inputs so far
  eLastInputs,    \* the sources, flags and SDK the last run started with
  eUnchanged,     \* whether the current run started with the inputs of the run before
  ePrevFailed,    \* the units whose compile failed in the run before the current one
  \* one run of the transpiler on one source file
  tSrc,           \* the statements of the source file
  tPc,            \* "parse", "gen", "finish", "done"
  tIdx,           \* the index of the next statement to parse or node to generate
  tAst,           \* the nodes parsed so far
  tDiags,         \* the diagnostics so far: [kind, severity, stmt]
  tOut,           \* the lines generated so far: [stmt, kind, text]
  tWritten,       \* the content of the output file: [written, lines]
  tExit,          \* the exit status, -1 while running
  \* pkgmgr.Install: the disk and the calls made so far
  iDisk,          \* the package manifests on disk: [root, name, version, file]
  iLog,           \* the Install calls so far: what each one did and returned
  \* pkgmgr.FetchAllRegistries: the registries and one call
  fUrls,          \* cfg.ResolvedRegistryURLs(): the configured order
  fWorld,         \* what each registry URL serves: [ok, names]
  fPc,            \* "fetch", "done"
  fIdx,           \* the index in fUrls of the next registry to fetch
  fMerged,        \* merged: name -> package
  fSourceMap,     \* sourceMap: name -> the registry URL that owns it
  fFetched,       \* registryURLs: the URLs fetched successfully
  fFirstErr,      \* firstErr
  fShadowed,      \* the shadowing warnings printed: <<name, url, owner>>
  fReturn,        \* what the call returned: [returned, packages, urls, err]
  \* the registry sources of keys.json, their packages.json and the cache
  kKeys,          \* kf.Registries: the registry ids, in keys.json order
  kRemote,        \* what each PackagesURL serves: [ok, packages]
  kCache,         \* the cached DB of each registry id: [ok, packages]
  kCall,          \* the last call of Search, Resolve or UpdateDB and its result
  \* config: the environment, the config file and the loaded Config
  gEnv,           \* os.Getenv("tsuki_REGISTRY")
  gFile,          \* config.json: [state, RegistryURLs, RegistryURL]
  gCfg,           \* what Load returned: [loaded, nil, RegistryURLs, RegistryURL]
  gUrls,          \* what ResolvedRegistryURLs returned: [called, urls]
  \* the manifest a package command edits, and the last edit
  dPackages,      \* m.Packages
  dDependencies,  \* m.Dependencies: name -> version
  dCall,          \* the last call: [op, name, version, ret, before]
  \* the lock file in memory and the last call made on it
  lEntries,       \* lf.Entries
  lCall,          \* the last call: [op, entry, name, ret, before]
  \* the updatedb command: keys.json, its position and what it has done
  qFile,          \* keys.json: [state, keys]
  qPc,            \* "start", "loop", "done", "panicked"
  qKeys,          \* keys: the registry keys parsed from keys.json
  qIdx,           \* the index in keys of the next registry
  qOk,            \* ok
  qFail,          \* fail
  qFetched,       \* the URLs httpGet was called with
  qCached,        \* the cache files written
  qReturn,        \* what RunE returned: [returned, err, summary]
  \* the last project name turned into a sketch name
  sCall,          \* [op, name, ret]
  \* a project built more than once, nothing changed in between
  rManifest,      \* the manifest file: [kind, raw] or [kind, packages]
  rBuilds,        \* per build, the argument lists of its transpiler runs
  \* the config `tsuki config set/get` works on, and the last call
  setCfg,         \* the Config: field name -> value
  setCall         \* [op, key, value, err, before] or [op, key, val, err, set]

projectVars == <<goFiles, mPackages>>

buildVars ==
  <<libs, opts, bPc, bIdx, bInvocations, bResult, bReturn, inoWritten,
    compilerInvoked>>

checkVars == <<cPc, cIdx, cRuns, report, cReturn>>

uploadVars == <<uOpts, uPc, uPort, uDetected, programmerRuns, uReturn, uTraceback>>

engineVars ==
  <<eSrc, eFlags, eSdk, manifest, ePhase, eStatus, eWriters, eFirmware, eSnap,
    eRecompiled, eRuns, eEdits, eLastInputs, eUnchanged, ePrevFailed>>

transVars == <<tSrc, tPc, tIdx, tAst, tDiags, tOut, tWritten, tExit>>

\* The state outside the four commands above.
installVars == <<iDisk, iLog>>
registryVars ==
  <<fUrls, fWorld, fPc, fIdx, fMerged, fSourceMap, fFetched, fFirstErr,
    fShadowed, fReturn>>
dbVars == <<kKeys, kRemote, kCache, kCall>>
configVars == <<gEnv, gFile, gCfg, gUrls>>
depVars == <<dPackages, dDependencies, dCall>>
lockVars == <<lEntries, lCall>>
updatedbVars == <<qFile, qPc, qKeys, qIdx, qOk, qFail, qFetched, qCached, qReturn>>
sketchVars == <<sCall>>
rebuildVars == <<rManifest, rBuilds>>
settingsVars == <<setCfg, setCall>>

restVars ==
  <<transVars, installVars, registryVars, dbVars,
    configVars, depVars, lockVars, updatedbVars,
    sketchVars, rebuildVars, settingsVars>>

\* What the actions of one command leave alone: the state of the others.
otherThanBuild == <<checkVars, uploadVars, engineVars, restVars>>
otherThanCheck == <<buildVars, uploadVars, engineVars, restVars>>
otherThanUpload == <<buildVars, checkVars, engineVars, restVars>>
otherThanEngine == <<buildVars, checkVars, uploadVars, restVars>>
commandVars == <<projectVars, buildVars, checkVars, uploadVars, engineVars>>















otherThanTrans ==
  <<installVars, registryVars, dbVars, configVars,
    depVars, lockVars, updatedbVars, sketchVars,
    rebuildVars, settingsVars>>
otherThanInstall ==
  <<transVars, registryVars, dbVars, configVars,
    depVars, lockVars, updatedbVars, sketchVars,
    rebuildVars, settingsVars>>
otherThanRegistry ==
  <<transVars, installVars, dbVars, configVars,
    depVars, lockVars, updatedbVars, sketchVars,
    rebuildVars, settingsVars>>
otherThanDb ==
  <<transVars, installVars, registryVars, configVars,
    depVars, lockVars, updatedbVars, sketchVars,
    rebuildVars, settingsVars>>
otherThanConfig ==
  <<transVars, installVars, registryVars, dbVars,
    depVars, lockVars, updatedbVars, sketchVars,
    rebuildVars, settingsVars>>
otherThanDep ==
  <<transVars, installVars, registryVars, dbVars,
    configVars, lockVars, updatedbVars, sketchVars,
    rebuildVars, settingsVars>>
otherThanLock ==
  <<transVars, installVars, registryVars, dbVars,
    configVars, depVars, updatedbVars, sketchVars,
    rebuildVars, settingsVars>>
otherThanUpdatedb ==
  <<transVars, installVars, registryVars, dbVars,
    configVars, depVars, lockVars, sketchVars,
    rebuildVars, settingsVars>>
otherThanSketch ==
  <<transVars, installVars, registryVars, dbVars,
    configVars, depVars, lockVars, updatedbVars,
    rebuildVars, settingsVars>>
otherThanRebuild ==
  <<transVars, installVars, registryVars, dbVars,
    configVars, depVars, lockVars, updatedbVars,
    sketchVars, settingsVars>>
otherThanSettings ==
  <<transVars, installVars, registryVars, dbVars,
    configVars, depVars, lockVars, updatedbVars,
    sketchVars, rebuildVars>>

vars == <<commandVars, restVars>>

\* ------------------------------------------------------------ manifest
\* Manifest.PackageNames
PackageNames(pkgs) == [i \in 1..Len(pkgs) |-> pkgs[i].Name]

\* -------------------------------------------------------------- pkgmgr
ManifestFileName == "tsukilib.toml"

\* pkgmgr.ListInstalled: every <libs>/<name>/<version>/ that holds a manifest.
ListInstalled(dir) ==
  {[Name |-> e[1], Version |-> e[2]] : e \in {x \in dir : x[3] = ManifestFileName}}

\* pkgmgr.IsInstalled
IsInstalled(dir, name) == \E p \in ListInstalled(dir) : p.Name = name

\* --------------------------------------------------------------- build
SketchDir == "build/sketch"
InputPath(base) == <<"src", base, ".go">>

\* strings.TrimSuffix(filepath.Base(goFile), ".go")
BaseName(goFile) == goFile[2]

\* filepath.Join(sketchDir, base+".cpp")
CppPath(goFile) == <<SketchDir, BaseName(goFile), ".cpp">>

NilResult ==
  [nil |-> TRUE, CppFiles |-> <<>>, Warnings |-> <<>>, FirmwareHex |-> ""]

EmptyResult ==
  [nil |-> FALSE, CppFiles |-> <<>>, Warnings |-> <<>>, FirmwareHex |-> ""]

NoReturn == [returned |-> FALSE, result |-> NilResult, err |-> NoErr, pkgs |-> {}]

Return(res, e, named) == [returned |-> TRUE, result |-> res, err |-> e, pkgs |-> named]

\* The declared packages IsInstalled does not find, in manifest order.
MissingPkgs(names, dir) == SelectSeq(names, LAMBDA n : ~IsInstalled(dir, n))

\* The packages the "not installed" error names: the loop over pkgNames
\* returns at the first one that is missing.
NamedInError(names, dir) == {Head(MissingPkgs(names, dir))}

TranspileRequest(base, names) ==
  [InputFile |-> InputPath(base), OutputFile |-> CppPath(InputPath(base)),
   Board |-> BoardArg, SourceMap |-> FALSE, LibsDir |-> LibsDirArg,
   PkgNames |-> names]

\* Run, up to its transpile loop: the sketch directory, the transpiler binary,
\* the sources and the declared packages.
BuildStart ==
  /\ bPc = "start"
  /\ \E mkdirOK \in BOOLEAN, coreInstalled \in BOOLEAN :
       LET names == PackageNames(mPackages) IN
       IF ~mkdirOK
       THEN /\ bReturn' = Return(NilResult, "creating sketch dir", {})
            /\ bPc' = "done"
            /\ UNCHANGED bResult
       ELSE IF ~coreInstalled
       THEN /\ bReturn' = Return(NilResult, "tsuki-core not found", {})
            /\ bPc' = "done"
            /\ UNCHANGED bResult
       ELSE IF Len(goFiles) = 0
       THEN /\ bReturn' = Return(NilResult, "no .go files found", {})
            /\ bPc' = "done"
            /\ UNCHANGED bResult
       ELSE IF MissingPkgs(names, libs) # <<>>
       THEN /\ bReturn' = Return(NilResult, "package is not installed",
                                 NamedInError(names, libs))
            /\ bPc' = "done"
            /\ UNCHANGED bResult
       ELSE /\ bResult' = EmptyResult
            /\ bPc' = "transpile"
            /\ UNCHANGED bReturn
  /\ UNCHANGED <<libs, opts, bIdx, bInvocations, inoWritten, compilerInvoked>>
  /\ UNCHANGED <<projectVars, otherThanBuild>>

\* The loop's step, had it put the newest output first.
CollectPrepend(res, tr) ==
  [res EXCEPT !.CppFiles = <<tr.OutputFile>> \o @,
              !.Warnings = @ \o tr.Warnings]

\* What the loop does with the Result after one successful transpile.
Collect(res, tr) ==
  [res EXCEPT !.CppFiles = Append(@, tr.OutputFile),
              !.Warnings = @ \o tr.Warnings]

\* One iteration of the transpile loop: one run of the transpiler.
BuildTranspile ==
  /\ bPc = "transpile"
  /\ bIdx <= Len(goFiles)
  /\ \E out \in CoreOutcomes :
       LET req == TranspileRequest(goFiles[bIdx], PackageNames(mPackages))
           tr == Transpile(req, out)
       IN  /\ bInvocations' = Append(bInvocations,
                [file |-> goFiles[bIdx], args |-> TranspileArgs(req),
                 exit |-> out.exit, diags |-> out.diags])
           /\ IF tr.err # NoErr
              THEN /\ bReturn' = Return(NilResult, tr.err, {})
                   /\ bPc' = "done"
                   /\ UNCHANGED <<bResult, bIdx>>
              ELSE /\ bResult' = Collect(bResult, tr.res)
                   /\ bIdx' = bIdx + 1
                   /\ UNCHANGED <<bReturn, bPc>>
  /\ UNCHANGED <<libs, opts, inoWritten, compilerInvoked>>
  /\ UNCHANGED <<projectVars, otherThanBuild>>

\* After the loop: the .ino stub, and the return of a build that does not compile.
BuildWriteStub ==
  /\ bPc = "transpile"
  /\ bIdx > Len(goFiles)
  /\ \E writeOK \in BOOLEAN :
       IF ~writeOK
       THEN /\ bReturn' = Return(NilResult, "writing .ino stub", {})
            /\ bPc' = "done"
            /\ UNCHANGED inoWritten
       ELSE /\ inoWritten' = TRUE
            /\ IF ~opts.Compile
               THEN bReturn' = Return(bResult, NoErr, {}) /\ bPc' = "done"
               ELSE UNCHANGED bReturn /\ bPc' = "compile"
  /\ UNCHANGED <<libs, opts, bIdx, bInvocations, bResult, compilerInvoked>>
  /\ UNCHANGED <<projectVars, otherThanBuild>>

\* The compile backend Options.Backend selects.
Backend(o) == IF o.Backend = "tsuki-flash" THEN "tsuki-flash" ELSE "arduino-cli"

\* The compile step: the selected backend, then the firmware it left.
BuildCompile ==
  /\ bPc = "compile"
  /\ compilerInvoked' = Backend(opts)
  /\ \E compileOK \in BOOLEAN, hexFound \in BOOLEAN :
       IF ~compileOK
       THEN /\ bReturn' = Return(bResult, Backend(opts) \o " compile failed", {})
            /\ UNCHANGED bResult
       ELSE /\ bResult' = [bResult EXCEPT !.FirmwareHex =
                             IF hexFound THEN "firmware.hex" ELSE ""]
            /\ bReturn' = Return(bResult', NoErr, {})
  /\ bPc' = "done"
  /\ UNCHANGED <<libs, opts, bIdx, bInvocations, inoWritten>>
  /\ UNCHANGED <<projectVars, otherThanBuild>>

BuildOptions ==
  {[Compile |-> FALSE, Backend |-> ""], [Compile |-> TRUE, Backend |-> ""],
   [Compile |-> TRUE, Backend |-> "tsuki-flash"]}

PkgSet == {PkgUniverse[i] : i \in 1..MaxPkgs}

ProjectInit ==
  /\ goFiles \in {[i \in 1..Len(s) |-> FileNames[s[i]]] : s \in SortedPicks(Len(FileNames))}
  /\ mPackages \in {[i \in 1..Len(a) |-> [Name |-> a[i], Version |-> "1.0.0"]] :
                      a \in Arrangements(PkgSet)}

BuildIdle ==
  /\ bPc = "start"
  /\ bIdx = 1
  /\ bInvocations = <<>>
  /\ bResult = NilResult
  /\ bReturn = NoReturn
  /\ inoWritten = FALSE
  /\ compilerInvoked = ""

BuildInit ==
  /\ libs \in {{<<n, "1.0.0", ManifestFileName>> : n \in S} : S \in SUBSET PkgSet}
  /\ opts \in BuildOptions
  /\ BuildIdle

\* --------------------------------------------------------------- check
NilReport == [nil |-> TRUE, Files |-> 0, Warnings |-> <<>>, Errors |-> <<>>]

NoCheckReturn == [returned |-> FALSE, report |-> NilReport, err |-> NoErr]

\* string(srcBytes): the text of a source file.
SourceText(base) == <<"text of", base>>

\* filepath.Base(goFile)
FileBase(goFile) == <<goFile[2], goFile[3]>>

Issues(file, messages, isError) ==
  [i \in 1..Len(messages) |->
     [File |-> file, Message |-> messages[i], IsError |-> isError]]

\* What the loop of check.Run adds to the report for one checked file.
AddIssues(rep, file, chk) ==
  [rep EXCEPT
     !.Warnings = @ \o Issues(file, chk.warnings, FALSE),
     !.Errors = @ \o Issues(file, chk.errors, TRUE)
                  \o (IF chk.err # NoErr
                      THEN Issues(file, << <<chk.err>> >>, TRUE) ELSE <<>>)]

\* check.Run, up to its loop: the transpiler binary and the sources.
CheckStart ==
  /\ cPc = "start"
  /\ \E coreInstalled \in BOOLEAN :
       IF ~coreInstalled
       THEN /\ cReturn' = [returned |-> TRUE, report |-> NilReport,
                           err |-> "godotino-core not found"]
            /\ cPc' = "done"
            /\ UNCHANGED report
       ELSE IF Len(goFiles) = 0
       THEN /\ cReturn' = [returned |-> TRUE, report |-> NilReport,
                           err |-> "no .go files found"]
            /\ cPc' = "done"
            /\ UNCHANGED report
       ELSE /\ report' = [NilReport EXCEPT !.nil = FALSE, !.Files = Len(goFiles)]
            /\ cPc' = "check"
            /\ UNCHANGED cReturn
  /\ UNCHANGED <<cIdx, cRuns>>
  /\ UNCHANGED <<projectVars, otherThanCheck>>

\* One iteration of the loop of check.Run: the file is read and checked.
CheckFile ==
  /\ cPc = "check"
  /\ cIdx <= Len(goFiles)
  /\ \E readOK \in BOOLEAN, out \in CoreOutcomes :
       LET goFile == InputPath(goFiles[cIdx])
           args == CheckArgs(SourceText(goFiles[cIdx]), FileBase(goFile),
                             BoardArg, PackageNames(mPackages))
       IN  IF ~readOK
           THEN /\ cReturn' = [returned |-> TRUE, report |-> NilReport,
                               err |-> "cannot read file"]
                /\ cPc' = "done"
                /\ UNCHANGED <<cIdx, cRuns, report>>
           ELSE /\ cRuns' = Append(cRuns,
                      [file |-> goFile, args |-> args, exit |-> out.exit,
                       diags |-> out.diags])
                /\ report' = AddIssues(report, goFile, Check(out))
                /\ cIdx' = cIdx + 1
                /\ UNCHANGED <<cPc, cReturn>>
  /\ UNCHANGED <<projectVars, otherThanCheck>>

\* After the loop: the report is returned.
CheckReturn ==
  /\ cPc = "check"
  /\ cIdx > Len(goFiles)
  /\ cReturn' = [returned |-> TRUE, report |-> report, err |-> NoErr]
  /\ cPc' = "done"
  /\ UNCHANGED <<cIdx, cRuns, report>>
  /\ UNCHANGED <<projectVars, otherThanCheck>>

CheckIdle ==
  /\ cPc = "start"
  /\ cIdx = 1
  /\ cRuns = <<>>
  /\ report = NilReport
  /\ cReturn = NoCheckReturn

\* --------------------------------------------------------------- flash
\* boardFQBN
boardFQBN(board) ==
  CASE board = "uno" -> "arduino:avr:uno"
    [] board = "esp32" -> "esp32:esp32:esp32"
    [] OTHER -> ""

\* strings.HasPrefix, on the words the model uses.
HasPrefix(w, prefix) ==
  CASE prefix = "/dev/" -> w \in {"/dev/ttyUSB0", "/dev/ttyS0", "/dev/ttyACM0"}
    [] prefix = "COM" -> w \in {"COM3"}
    [] OTHER -> FALSE

\* strings.Fields
Fields(line) == SelectSeq(line, LAMBDA w : ~IsSpace(w))

\* The loop both detectPort functions run over the lines of the output: the
\* first field of the first line that starts with a port prefix, "" for none.
RECURSIVE FirstPort(_)
FirstPort(lines) ==
  IF lines = <<>> THEN ""
  ELSE LET fields == Fields(Head(lines)) IN
       IF Len(fields) >= 1
          /\ (HasPrefix(fields[1], "/dev/") \/ HasPrefix(fields[1], "COM"))
       THEN fields[1]
       ELSE FirstPort(Tail(lines))

\* detectPortTsukiFlash, for a run of `tsuki-flash detect` that ended as `run`.
detectPortTsukiFlash(run) ==
  IF ~run.ok THEN [port |-> "", err |-> "tsuki-flash detect failed"]
  ELSE IF FirstPort(SplitLines(run.out)) # ""
  THEN [port |-> FirstPort(SplitLines(run.out)), err |-> NoErr]
  ELSE [port |-> "", err |-> "no board found on any serial port"]

\* detectPortArduinoCLI, for a run of `arduino-cli board list`.
detectPortArduinoCLI(run) ==
  IF ~run.ok THEN [port |-> "", err |-> "arduino-cli board list failed"]
  ELSE IF FirstPort(SplitLines(run.out)) # ""
  THEN [port |-> FirstPort(SplitLines(run.out)), err |-> NoErr]
  ELSE [port |-> "", err |-> "no board found on any serial port"]

\* What the detect command prints: a header, a rule, and one row per serial
\* port with the board it was matched to ("unknown" when it matches none).
DeviceRows ==
  { <<"/dev/ttyUSB0", "uno", "1A86:7523", "Arduino Uno">>,
    <<"/dev/ttyS0", "unknown", "0000:0000", "Serial Port">>,
    <<"COM3", "esp32", "10C4:EA60", "ESP32">> }

DetectHeader == << <<"PORT", "BOARD", "VID:PID", "NAME">>, <<"----------">> >>

DetectRuns ==
  {[ok |-> FALSE, devices |-> <<>>, out |-> <<>>]}
    \cup {[ok |-> TRUE, devices |-> d, out |-> DetectHeader \o d] :
            d \in UNION {[1..n -> DeviceRows] : n \in 0..MaxPorts}}

HintLine == "Hint: connect the board and try again, or pass --port /dev/ttyUSBx"

NoUploadReturn == [returned |-> FALSE, err |-> NoErr, text |-> <<>>]

UploadBackend(o) == IF o.Backend = "tsuki-flash" THEN "tsuki-flash" ELSE "arduino-cli"

\* Run and the selected upload function, up to the port they settle on.
UploadResolvePort ==
  /\ uPc = "start"
  /\ IF UploadBackend(uOpts) = "arduino-cli" /\ boardFQBN(ToLower(uOpts.Board)) = ""
     THEN /\ uReturn' = [returned |-> TRUE, err |-> "unknown board",
                         text |-> <<uOpts.Board>>]
          /\ uPc' = "done"
          /\ UNCHANGED <<uPort, uDetected>>
     ELSE IF uOpts.Port # ""
     THEN /\ uPort' = uOpts.Port
          /\ uPc' = "upload"
          /\ UNCHANGED <<uReturn, uDetected>>
     ELSE \E run \in DetectRuns :
            LET d == IF UploadBackend(uOpts) = "tsuki-flash"
                     THEN detectPortTsukiFlash(run)
                     ELSE detectPortArduinoCLI(run)
            IN  /\ uDetected' = run.devices
                /\ IF d.err # NoErr
                   THEN /\ uReturn' = [returned |-> TRUE, err |-> "no board detected",
                                       text |-> <<d.err, HintLine>>]
                        /\ uPc' = "done"
                        /\ UNCHANGED uPort
                   ELSE /\ uPort' = d.port
                        /\ uPc' = "upload"
                        /\ UNCHANGED uReturn
  /\ UNCHANGED <<uOpts, programmerRuns, uTraceback>>
  /\ UNCHANGED <<projectVars, otherThanUpload>>

\* The argument list of the programmer run.
UploadArgs(o, port) ==
  (IF UploadBackend(o) = "tsuki-flash"
   THEN <<"upload", "--board", o.Board, "--port", port, "--build-dir", "build/.cache">>
   ELSE <<"upload", "--fqbn", boardFQBN(ToLower(o.Board)), "--port", port,
          "--input-dir", "build/.cache">>)
    \o (IF o.Verbose THEN <<"--verbose">> ELSE <<>>)

\* strings.Contains(l, sub) for the markers renderFlashError looks for, on
\* the words a programmer prints; "not found" spans two words.
ContainsMarker(line, sub) ==
  CASE sub = "error" -> \E i \in 1..Len(line) : line[i] \in {"error:", "error"}
    [] sub = "Error" -> \E i \in 1..Len(line) : line[i] \in {"Error:", "Error"}
    [] sub = "not found" ->
         \E i \in 1..(Len(line) - 1) : line[i] = "not" /\ line[i + 1] = "found"
    [] OTHER -> FALSE

\* The loop of renderFlashError: the trimmed lines that are not empty and
\* hold a marker.
RECURSIVE RelevantLines(_)
RelevantLines(lines) ==
  IF lines = <<>> THEN <<>>
  ELSE LET l == TrimSpace(Head(lines)) IN
       IF l # <<>>
          /\ (ContainsMarker(l, "error") \/ ContainsMarker(l, "Error")
              \/ ContainsMarker(l, "not found"))
       THEN <<l>> \o RelevantLines(Tail(lines))
       ELSE RelevantLines(Tail(lines))

\* strings.TrimSpace on a text of several lines: the white space before its
\* first and after its last printed word goes, line breaks included.
RECURSIVE TrimTextLeft(_)
TrimTextLeft(lines) ==
  IF lines = <<>> THEN <<>>
  ELSE IF TrimLeft(Head(lines)) = <<>> THEN TrimTextLeft(Tail(lines))
  ELSE <<TrimLeft(Head(lines))>> \o Tail(lines)

RECURSIVE TrimTextRight(_)
TrimTextRight(lines) ==
  IF lines = <<>> THEN <<>>
  ELSE IF TrimRight(lines[Len(lines)]) = <<>>
  THEN TrimTextRight(SubSeq(lines, 1, Len(lines) - 1))
  ELSE SubSeq(lines, 1, Len(lines) - 1) \o <<TrimRight(lines[Len(lines)])>>

TrimSpaceText(lines) == TrimTextRight(TrimTextLeft(lines))

NoTraceback == [shown |-> FALSE, sep |-> "", msg |-> <<>>]

\* renderFlashError, had it shown every line of the output that is not empty.
renderFlashErrorAllLines(output) ==
  [shown |-> TRUE, sep |-> "; ",
   msg |-> SelectSeq([i \in 1..Len(output) |-> TrimSpace(output[i])],
                     LAMBDA l : l # <<>>)]

\* renderFlashError: the traceback it shows for the programmer's output; msg
\* is the relevant lines joined by "; ", or the whole trimmed output when no
\* line is relevant.
renderFlashError(output) ==
  LET relevant == RelevantLines(SplitLines(output)) IN
  IF relevant # <<>>
  THEN [shown |-> TRUE, sep |-> "; ", msg |-> relevant]
  ELSE [shown |-> TRUE, sep |-> "\n", msg |-> TrimSpaceText(output)]

\* What a programmer prints: the lines of its combined stdout and stderr.
ProgrammerLines ==
  { <<"avrdude:", "stk500_recv():", "programmer", "is", "not", "responding">>,
    <<" ", "avrdude:", "ser_open():", "error:", "can't", "open", "device", " ">>,
    <<"Error:", "port", "busy">>,
    <<"esptool:", "chip", "not", "found">>,
    <<"A", "fatal", "ERROR", "occurred">>,
    <<>> }

ProgrammerOutputs == UNION {[1..n -> ProgrammerLines] : n \in 0..MaxOutLines}

\* The programmer run and the return of the upload function.
UploadProgram ==
  /\ uPc = "upload"
  /\ \E exit \in {0, 1}, out \in ProgrammerOutputs :
       /\ programmerRuns' = Append(programmerRuns,
            [bin |-> UploadBackend(uOpts), args |-> UploadArgs(uOpts, uPort),
             exit |-> exit, out |-> out])
       /\ uTraceback' = IF exit # 0 THEN renderFlashError(out) ELSE uTraceback
       /\ uReturn' = [returned |-> TRUE,
                      err |-> IF exit # 0 THEN "upload failed" ELSE NoErr,
                      text |-> <<>>]
  /\ uPc' = "done"
  /\ UNCHANGED <<uOpts, uPort, uDetected>>
  /\ UNCHANGED <<projectVars, otherThanUpload>>

UploadOptions ==
  [Port : {"", "/dev/ttyACM0"}, Backend : {"", "tsuki-flash", "arduino-cli"},
   Board : {"uno", "zx81"}, Verbose : BOOLEAN]

UploadInit ==
  /\ uOpts \in UploadOptions
  /\ uPc = "start"
  /\ uPort = ""
  /\ uDetected = <<>>
  /\ programmerRuns = <<>>
  /\ uReturn = NoUploadReturn
  /\ uTraceback = NoTraceback

\* -------------------------------------------------- the build engine
\* tsuki-flash compile: the sketch's translation units are compiled into
\* objects under a cache keyed by path, then linked into firmware.
Units == 1..MaxUnits
Contents == {"h1", "h2", "bad"}
FlagSets == {"f1", "f2"}
SdkVersions == {"v1", "v2"}

NoEntry == [hash |-> "", flags |-> ""]
NoInputs == [src |-> <<>>, flags |-> "", sdk |-> ""]

\* The compiler accepts a unit or rejects it, by its content.
CompileSucceeds(content) == content # "bad"

\* The entry of a freshly compiled object.
EntryFor(hash, flags) == [hash |-> hash, flags |-> flags]

\* The hit test, had it compared the content hash alone.
CacheHitHashOnly(entry, hash, flags) == entry.hash = hash

\* An object is reused if the entry of its unit carries the unit's content
\* hash and the active flag fingerprint.
CacheHit(entry, hash, flags) == entry.hash = hash /\ entry.flags = flags

\* The entries a run loads: none of them when the manifest was written under
\* another SDK version.
LoadEntries(m, sdk) ==
  IF m.sdk = sdk THEN m.entries ELSE [u \in Units |-> NoEntry]

\* The barrier, had it waited for the queue to empty but not for the workers.
AllCompilesQueued(status) == \A u \in Units : status[u] # "pending"

\* The barrier: no unit is waiting for a worker or being compiled.
AllCompilesDone(status) == \A u \in Units : status[u] \notin {"pending", "running"}

\* The manifest write, had it kept the loaded entries as they were.
WrittenEntriesStale(loaded, status, src, flags) == loaded

\* The manifest write, had it recorded every unit handed to the compiler.
WrittenEntriesAttempted(loaded, status, src, flags) ==
  [u \in Units |->
     IF status[u] \in {"ok", "failed"} THEN EntryFor(src[u], flags) ELSE loaded[u]]

\* The entries the manifest write leaves: a new entry for every unit whose
\* compile succeeded in this run, the loaded entry for every other unit.
WrittenEntries(loaded, status, src, flags) ==
  [u \in Units |->
     IF status[u] = "ok" THEN EntryFor(src[u], flags) ELSE loaded[u]]

CurrentInputs == [src |-> eSrc, flags |-> eFlags, sdk |-> eSdk]

Running == {u \in Units : eStatus[u] = "running"}
Failed == {u \in Units : eStatus[u] = "failed"}

\* Between runs: a source file is edited.
EngEdit ==
  /\ ePhase = "idle"
  /\ eEdits < MaxEdits
  /\ \E u \in Units :
       \E c \in Contents \ {eSrc[u]} : eSrc' = [eSrc EXCEPT ![u] = c]
  /\ eEdits' = eEdits + 1
  /\ UNCHANGED <<eFlags, eSdk, manifest, ePhase, eStatus, eWriters, eFirmware,
                 eSnap, eRecompiled, eRuns, eLastInputs, eUnchanged, ePrevFailed>>
  /\ UNCHANGED <<projectVars, otherThanEngine>>

\* Between runs: the compiler flags are changed.
EngSetFlags ==
  /\ ePhase = "idle"
  /\ eEdits < MaxEdits
  /\ eFlags' \in FlagSets \ {eFlags}
  /\ eEdits' = eEdits + 1
  /\ UNCHANGED <<eSrc, eSdk, manifest, ePhase, eStatus, eWriters, eFirmware,
                 eSnap, eRecompiled, eRuns, eLastInputs, eUnchanged, ePrevFailed>>
  /\ UNCHANGED <<projectVars, otherThanEngine>>

\* Between runs: another SDK version is installed.
EngSetSdk ==
  /\ ePhase = "idle"
  /\ eEdits < MaxEdits
  /\ eSdk' \in SdkVersions \ {eSdk}
  /\ eEdits' = eEdits + 1
  /\ UNCHANGED <<eSrc, eFlags, manifest, ePhase, eStatus, eWriters, eFirmware,
                 eSnap, eRecompiled, eRuns, eLastInputs, eUnchanged, ePrevFailed>>
  /\ UNCHANGED <<projectVars, otherThanEngine>>

\* compile starts: the manifest is loaded and every unit is a hit or queued.
EngStartRun ==
  /\ ePhase = "idle"
  /\ eRuns < MaxRuns
  /\ eSnap' = LoadEntries(manifest, eSdk)
  /\ eStatus' = [u \in Units |->
                   IF CacheHit(eSnap'[u], eSrc[u], eFlags) THEN "cached"
                   ELSE "pending"]
  /\ ePhase' = "compiling"
  /\ eFirmware' = FALSE
  /\ eRecompiled' = {}
  /\ eRuns' = eRuns + 1
  /\ eUnchanged' = (eRuns >= 1 /\ eLastInputs = CurrentInputs)
  /\ eLastInputs' = CurrentInputs
  /\ ePrevFailed' = IF eRuns >= 1 THEN Failed ELSE {}
  /\ UNCHANGED <<eSrc, eFlags, eSdk, manifest, eWriters, eEdits>>
  /\ UNCHANGED <<projectVars, otherThanEngine>>

\* A free worker takes a queued unit.
EngBeginCompile ==
  /\ ePhase = "compiling"
  /\ Cardinality(Running) < MaxWorkers
  /\ \E u \in Units :
       /\ eStatus[u] = "pending"
       /\ eStatus' = [eStatus EXCEPT ![u] = "running"]
       /\ eRecompiled' = eRecompiled \cup {u}
  /\ UNCHANGED <<eSrc, eFlags, eSdk, manifest, ePhase, eWriters, eFirmware, eSnap,
                 eRuns, eEdits, eLastInputs, eUnchanged, ePrevFailed>>
  /\ UNCHANGED <<projectVars, otherThanEngine>>

\* The compiler run of a unit ends.
EngEndCompile ==
  /\ \E u \in Units :
       /\ eStatus[u] = "running"
       /\ eStatus' = [eStatus EXCEPT
                        ![u] = IF CompileSucceeds(eSrc[u]) THEN "ok" ELSE "failed"]
  /\ UNCHANGED <<eSrc, eFlags, eSdk, manifest, ePhase, eWriters, eFirmware, eSnap,
                 eRecompiled, eRuns, eEdits, eLastInputs, eUnchanged, ePrevFailed>>
  /\ UNCHANGED <<projectVars, otherThanEngine>>

\* The worker pool has drained.
EngJoin ==
  /\ ePhase = "compiling"
  /\ AllCompilesDone(eStatus)
  /\ ePhase' = "joined"
  /\ UNCHANGED <<eSrc, eFlags, eSdk, manifest, eStatus, eWriters, eFirmware, eSnap,
                 eRecompiled, eRuns, eEdits, eLastInputs, eUnchanged, ePrevFailed>>
  /\ UNCHANGED <<projectVars, otherThanEngine>>

\* The manifest write begins.
EngBeginWrite ==
  /\ ePhase = "joined"
  /\ ePhase' = "writing"
  /\ eWriters' = eWriters + 1
  /\ UNCHANGED <<eSrc, eFlags, eSdk, manifest, eStatus, eFirmware, eSnap,
                 eRecompiled, eRuns, eEdits, eLastInputs, eUnchanged, ePrevFailed>>
  /\ UNCHANGED <<projectVars, otherThanEngine>>

\* The manifest write ends; a run with a failed unit ends here, without a link.
EngEndWrite ==
  /\ ePhase = "writing"
  /\ manifest' = [sdk |-> eSdk,
                  entries |-> WrittenEntries(eSnap, eStatus, eSrc, eFlags)]
  /\ eWriters' = eWriters - 1
  /\ ePhase' = IF Failed # {} THEN "idle" ELSE "linking"
  /\ UNCHANGED <<eSrc, eFlags, eSdk, eStatus, eFirmware, eSnap, eRecompiled, eRuns,
                 eEdits, eLastInputs, eUnchanged, ePrevFailed>>
  /\ UNCHANGED <<projectVars, otherThanEngine>>

\* The objects, cached and fresh, are linked into firmware.
EngLink ==
  /\ ePhase = "linking"
  /\ eFirmware' = TRUE
  /\ ePhase' = "idle"
  /\ UNCHANGED <<eSrc, eFlags, eSdk, manifest, eStatus, eWriters, eSnap,
                 eRecompiled, eRuns, eEdits, eLastInputs, eUnchanged, ePrevFailed>>
  /\ UNCHANGED <<projectVars, otherThanEngine>>

EngineInit ==
  /\ eSrc \in [Units -> Contents]
  /\ eFlags = "f1"
  /\ eSdk = "v1"
  /\ manifest = [sdk |-> "", entries |-> [u \in Units |-> NoEntry]]
  /\ ePhase = "idle"
  /\ eStatus = [u \in Units |-> "idle"]
  /\ eWriters = 0
  /\ eFirmware = FALSE
  /\ eSnap = [u \in Units |-> NoEntry]
  /\ eRecompiled = {}
  /\ eRuns = 0
  /\ eEdits = 0
  /\ eLastInputs = NoInputs
  /\ eUnchanged = FALSE
  /\ ePrevFailed = {}

\* ------------------------------------------------ the transpiler run
\* tsuki-core on one file: the parser turns every statement into a node, the
\* code generator turns every node into lines, and the output file is written
\* only when no error diagnostic was produced.
CallArgs == <<"strip", "i", "color">>

\* The function templates of the package map in use.
Template(fn) ==
  CASE fn = "Show" -> <<"{0}", ".show()">>
    [] fn = "SetPixelColor" -> <<"{0}", ".setPixelColor(", "{1}", ", ", "{2}", ")">>
    [] OTHER -> <<>>

PlaceholderIndex(piece) ==
  CASE piece = "{0}" -> 0
    [] piece = "{1}" -> 1
    [] piece = "{2}" -> 2
    [] OTHER -> -1

\* The number of placeholders of a template.
PlaceholderCount(t) ==
  Cardinality({PlaceholderIndex(t[i]) : i \in 1..Len(t)} \ {-1})

\* The template with every placeholder replaced by its argument.
Substitute(t, args) ==
  [i \in 1..Len(t) |->
     IF PlaceholderIndex(t[i]) >= 0 THEN args[PlaceholderIndex(t[i]) + 1] ELSE t[i]]

Stmt(kind, fn, nargs) == [kind |-> kind, fn |-> fn, nargs |-> nargs]

Statements ==
  {Stmt(k, "", 0) : k \in {"assign", "go", "defer", "chan", "generic"}}
    \cup {Stmt("call", fn, n) : fn \in {"Show", "SetPixelColor"}, n \in 1..3}

\* The node the parser builds for a statement: `go` and `defer` parse to an
\* Unsupported stub, a channel type or a type parameter has no node.
ParseNode(st) ==
  CASE st.kind \in {"go", "defer"} -> [node |-> "Unsupported", stmt |-> st]
    [] st.kind \in {"chan", "generic"} -> [node |-> "None", stmt |-> st]
    [] st.kind = "call" -> [node |-> "Call", stmt |-> st]
    [] OTHER -> [node |-> "Assign", stmt |-> st]

\* The diagnostics the parser produces for a statement.
ParseDiags(st, i) ==
  IF st.kind \in {"chan", "generic"}
  THEN <<[kind |-> "UnsupportedConstructError", severity |-> "error", stmt |-> i]>>
  ELSE <<>>

\* The placeholder check, had it only refused a call with too few arguments
\* for the highest placeholder it can fill.
ArgCountFitsLoose(t, nargs) == nargs >= 1

\* The code generator's check of a call against its template.
ArgCountFits(t, nargs) == PlaceholderCount(t) = nargs

\* The stub, had it emitted the statement as code.
GenUnsupportedAsCode(n, i) ==
  [lines |-> <<[stmt |-> i, kind |-> "code", text |-> <<n.stmt.kind>>]>>,
   diags |-> <<>>]

\* The code generator on an Unsupported stub: a comment with the statement
\* and a warning.
GenUnsupported(n, i) ==
  [lines |-> <<[stmt |-> i, kind |-> "comment", text |-> <<n.stmt.kind>>]>>,
   diags |-> <<[kind |-> "UnsupportedStub", severity |-> "warning", stmt |-> i]>>]

\* The code generator on one node: the lines and the diagnostics it adds.
GenNode(n, i) ==
  CASE n.node = "Unsupported" -> GenUnsupported(n, i)
    [] n.node = "Call" ->
         IF ArgCountFits(Template(n.stmt.fn), n.stmt.nargs)
         THEN [lines |-> <<[stmt |-> i, kind |-> "code",
                            text |-> Substitute(Template(n.stmt.fn), CallArgs)]>>,
               diags |-> <<>>]
         ELSE [lines |-> <<>>,
               diags |-> <<[kind |-> "CodegenInvariantError", severity |-> "error",
                            stmt |-> i]>>]
    [] OTHER -> [lines |-> <<[stmt |-> i, kind |-> "code", text |-> <<"assign">>]>>,
                 diags |-> <<>>]

HasError(diags) == \E i \in 1..Len(diags) : diags[i].severity = "error"

\* The parser takes the next statement; an error does not stop it.
TParse ==
  /\ tPc = "parse"
  /\ tIdx <= Len(tSrc)
  /\ tAst' = Append(tAst, ParseNode(tSrc[tIdx]))
  /\ tDiags' = tDiags \o ParseDiags(tSrc[tIdx], tIdx)
  /\ tIdx' = tIdx + 1
  /\ UNCHANGED <<tSrc, tPc, tOut, tWritten, tExit>>
  /\ UNCHANGED <<commandVars, otherThanTrans>>

\* The end of the file: code is generated only for a file that parsed.
TParseEnd ==
  /\ tPc = "parse"
  /\ tIdx > Len(tSrc)
  /\ tPc' = IF HasError(tDiags) THEN "finish" ELSE "gen"
  /\ tIdx' = 1
  /\ UNCHANGED <<tSrc, tAst, tDiags, tOut, tWritten, tExit>>
  /\ UNCHANGED <<commandVars, otherThanTrans>>

\* The code generator takes the next node; an error ends the generation.
TGen ==
  /\ tPc = "gen"
  /\ IF tIdx <= Len(tAst)
     THEN LET g == GenNode(tAst[tIdx], tIdx) IN
          /\ tOut' = tOut \o g.lines
          /\ tDiags' = tDiags \o g.diags
          /\ tIdx' = tIdx + 1
          /\ tPc' = IF HasError(g.diags) THEN "finish" ELSE "gen"
     ELSE /\ tPc' = "finish"
          /\ UNCHANGED <<tOut, tDiags, tIdx>>
  /\ UNCHANGED <<tSrc, tAst, tWritten, tExit>>
  /\ UNCHANGED <<commandVars, otherThanTrans>>

\* The end of the run: the output file and the exit status.
TFinish ==
  /\ tPc = "finish"
  /\ tWritten' = IF HasError(tDiags) THEN tWritten
                 ELSE [written |-> TRUE, lines |-> tOut]
  /\ tExit' = IF HasError(tDiags) THEN 1 ELSE 0
  /\ tPc' = "done"
  /\ UNCHANGED <<tSrc, tIdx, tAst, tDiags, tOut>>
  /\ UNCHANGED <<commandVars, otherThanTrans>>

TransIdle ==
  /\ tPc = "parse"
  /\ tIdx = 1
  /\ tAst = <<>>
  /\ tDiags = <<>>
  /\ tOut = <<>>
  /\ tWritten = [written |-> FALSE, lines |-> <<>>]
  /\ tExit = -1

TransInit ==
  /\ tSrc \in UNION {[1..n -> Statements] : n \in 0..MaxStmts}
  /\ TransIdle

\* ------------------------------------------------------ pkgmgr: install
LibsRoot == "libs"

\* PackageDir(name, version) under LibsDir(), with the manifest file in it.
PackageFile(root, name, version) ==
  [root |-> root, name |-> name, version |-> version, file |-> ManifestFileName]

\* tryVerifyWithKey for every key of the key indexes, in order: each key
\* verifies the data, rejects it, or cannot be fetched.
KeyOutcomes == {"valid", "invalid", "unreachable"}

\* verifySignature: nil on the first key that verifies, an error when none does.
verifySignature(keys) ==
  IF \E k \in 1..Len(keys) : keys[k] = "valid" THEN NoErr
  ELSE IF keys # <<>> THEN "no key could verify the package signature"
  ELSE "no signing keys found in any key index"

\* config.Load: nil for a config file that cannot be read or parsed.
Configs ==
  {[nil |-> TRUE, VerifySignatures |-> FALSE]}
    \cup {[nil |-> FALSE, VerifySignatures |-> v] : v \in BOOLEAN}

InstallRecord(path, name, cfg, ran, verified, wrote, e) ==
  [path |-> path, name |-> name, cfg |-> cfg, verifyRan |-> ran,
   verified |-> verified, wrote |-> wrote, err |-> e]

\* specLocalDepDir / specGlobalDepDir
SpecInstallRoot(global) == IF global THEN "global/deps" ELSE ".tsuki/deps"

\* findCachedPkg
findCachedPkg(disk, root, name, version) ==
  \E f \in disk : f.root = root /\ f.name = name /\ f.version = version

\* installFromSource: fetch, parse, verify when the config asks for it, write.
InstallFromSource ==
  /\ Len(iLog) < MaxInstalls
  /\ \E name \in PkgSet, cfg \in Configs, fetchOK \in BOOLEAN, parseOK \in BOOLEAN,
        mkdirOK \in BOOLEAN, writeOK \in BOOLEAN,
        keys \in UNION {[1..n -> KeyOutcomes] : n \in 0..MaxKeys} :
       LET check == ~cfg.nil /\ cfg.VerifySignatures
           sigErr == verifySignature(keys)
           rec(ran, wrote, e) ==
             InstallRecord("source", name, cfg, ran, ran /\ sigErr = NoErr, wrote, e)
       IN  IF ~fetchOK
           THEN iLog' = Append(iLog, rec(FALSE, FALSE, "fetch failed")) /\ UNCHANGED iDisk
           ELSE IF ~parseOK
           THEN iLog' = Append(iLog, rec(FALSE, FALSE, "parse failed")) /\ UNCHANGED iDisk
           ELSE IF check /\ sigErr # NoErr
           THEN /\ iLog' = Append(iLog, rec(TRUE, FALSE, "signature verification failed"))
                /\ UNCHANGED iDisk
           ELSE IF ~mkdirOK
           THEN /\ iLog' = Append(iLog, rec(check, FALSE, "creating package dir"))
                /\ UNCHANGED iDisk
           ELSE IF ~writeOK
           THEN /\ iLog' = Append(iLog, rec(check, FALSE, "writing tsukilib.toml"))
                /\ UNCHANGED iDisk
           ELSE /\ iDisk' = iDisk \cup {PackageFile(LibsRoot, name, "1.0.0")}
                /\ iLog' = Append(iLog, rec(check, TRUE, NoErr))
  /\ UNCHANGED <<commandVars, otherThanInstall>>

\* installFromSpec: the cached package, or resolve, fetch and write.
InstallFromSpec ==
  /\ Len(iLog) < MaxInstalls
  /\ \E name \in PkgSet, cfg \in Configs, global \in BOOLEAN, resolveOK \in BOOLEAN,
        fetchOK \in BOOLEAN, mkdirOK \in BOOLEAN, writeOK \in BOOLEAN :
       LET root == SpecInstallRoot(global)
           rec(wrote, e) == InstallRecord("spec", name, cfg, FALSE, FALSE, wrote, e)
       IN  IF findCachedPkg(iDisk, root, name, "1.0.0")
           THEN iLog' = Append(iLog, rec(FALSE, NoErr)) /\ UNCHANGED iDisk
           ELSE IF ~resolveOK
           THEN /\ iLog' = Append(iLog, rec(FALSE, "not found in local registry cache"))
                /\ UNCHANGED iDisk
           ELSE IF ~fetchOK
           THEN iLog' = Append(iLog, rec(FALSE, "downloading")) /\ UNCHANGED iDisk
           ELSE IF ~mkdirOK
           THEN /\ iLog' = Append(iLog, rec(FALSE, "creating install dir"))
                /\ UNCHANGED iDisk
           ELSE IF ~writeOK
           THEN /\ iLog' = Append(iLog, rec(FALSE, "writing tsukilib.toml"))
                /\ UNCHANGED iDisk
           ELSE /\ iDisk' = iDisk \cup {PackageFile(root, name, "1.0.0")}
                /\ iLog' = Append(iLog, rec(TRUE, NoErr))
  /\ UNCHANGED <<commandVars, otherThanInstall>>

\* The libs directory as ListInstalled reads it: what the disk holds under
\* LibsDir(), as <<name, version, manifest file>>.
LibsOnDisk(disk) == {<<f.name, f.version, f.file>> : f \in {g \in disk : g.root = LibsRoot}}

InstallIdle ==
  /\ iDisk = {}
  /\ iLog = <<>>

\* --------------------------------------------------- pkgmgr: registries
RegistryUrlUniverse == <<"https://a", "https://b", "https://c", "https://d">>
RegistryURLs == {RegistryUrlUniverse[i] : i \in 1..MaxRegs}

\* The map with no key.
EmptyMap == [n \in {} |-> n]

\* The RegistryPackage the registry at url serves under name.
RegistryPackage(url, name) ==
  [Description |-> <<name, "from", url>>, Latest |-> "1.0.0"]

\* What the registries can serve: each URL answers or not, with an index.
RegistryWorlds == [RegistryURLs -> [ok : BOOLEAN, names : SUBSET PkgSet]]

fetchRegistryFromURL(world, url) ==
  IF world[url].ok
  THEN [err |-> NoErr,
        Packages |-> [n \in world[url].names |-> RegistryPackage(url, n)]]
  ELSE [err |-> "fetching registry", Packages |-> EmptyMap]

\* The loop over idx.Packages with a merge in which the registry fetched
\* last owns a name.
MergeIndexLastWins(merged, packages) ==
  [n \in DOMAIN merged \cup DOMAIN packages |->
     IF n \in DOMAIN packages THEN packages[n] ELSE merged[n]]

\* The loop over idx.Packages: a name already in merged keeps its package.
MergeIndex(merged, packages) ==
  [n \in DOMAIN merged \cup DOMAIN packages |->
     IF n \in DOMAIN merged THEN merged[n] ELSE packages[n]]

NoFetchReturn ==
  [returned |-> FALSE, packages |-> EmptyMap, urls |-> <<>>, err |-> NoErr]

\* One iteration of the loop over cfg.ResolvedRegistryURLs().
FetchRegistry ==
  /\ fPc = "fetch"
  /\ fIdx <= Len(fUrls)
  /\ LET regURL == fUrls[fIdx]
         idx == fetchRegistryFromURL(fWorld, regURL)
     IN IF idx.err # NoErr
        THEN /\ fFirstErr' = IF fFirstErr = NoErr THEN idx.err ELSE fFirstErr
             /\ UNCHANGED <<fMerged, fSourceMap, fFetched, fShadowed>>
        ELSE /\ fFetched' = Append(fFetched, regURL)
             /\ fMerged' = MergeIndex(fMerged, idx.Packages)
             /\ fSourceMap' =
                  MergeIndex(fSourceMap, [n \in DOMAIN idx.Packages |-> regURL])
             /\ fShadowed' = fShadowed \cup
                  {<<n, regURL, fSourceMap[n]>> :
                     n \in DOMAIN idx.Packages \cap DOMAIN fMerged}
             /\ UNCHANGED fFirstErr
  /\ fIdx' = fIdx + 1
  /\ UNCHANGED <<fUrls, fWorld, fPc, fReturn>>
  /\ UNCHANGED <<commandVars, otherThanRegistry>>

\* After the loop: the merged view, or an error when nothing was fetched.
FetchAllReturn ==
  /\ fPc = "fetch"
  /\ fIdx > Len(fUrls)
  /\ fPc' = "done"
  /\ fReturn' =
       IF Len(fFetched) = 0
       THEN [returned |-> TRUE, packages |-> EmptyMap, urls |-> <<>>,
             err |-> IF fFirstErr # NoErr THEN fFirstErr
                     ELSE "no registries could be reached"]
       ELSE [returned |-> TRUE, packages |-> fMerged, urls |-> fFetched,
             err |-> NoErr]
  /\ UNCHANGED <<fUrls, fWorld, fIdx, fMerged, fSourceMap, fFetched, fFirstErr,
                 fShadowed>>
  /\ UNCHANGED <<commandVars, otherThanRegistry>>

RegistryStart ==
  /\ fPc = "fetch"
  /\ fIdx = 1
  /\ fMerged = EmptyMap
  /\ fSourceMap = EmptyMap
  /\ fFetched = <<>>
  /\ fFirstErr = NoErr
  /\ fShadowed = {}
  /\ fReturn = NoFetchReturn

\* No call of FetchAllRegistries has been made.
RegistryIdle ==
  /\ fUrls = <<>>
  /\ fWorld = [u \in RegistryURLs |-> [ok |-> FALSE, names |-> {}]]
  /\ RegistryStart

\* A call of FetchAllRegistries about to start, on any non-empty
\* duplicate-free list of registries.
RegistryInit ==
  /\ fUrls \in Arrangements(RegistryURLs) \ {<<>>}
  /\ fWorld \in RegistryWorlds
  /\ RegistryStart

\* ------------------------------------------- pkgmgr: the package index
SourceIDs == <<"tsuki-team", "community">>
SourceIDSet == {SourceIDs[i] : i \in 1..Len(SourceIDs)}

\* The package names an index may list.
DbNames == {PkgUniverse[1]}
DbVersions == {"1.0.0", "2.0.0"}
DbDescriptions == {"sensor", "Motor"}

\* A PackageEntry; Versions holds the keys of its version map.
PackageEntries ==
  [Description : DbDescriptions, Latest : DbVersions, Versions : SUBSET DbVersions]

\* The Packages maps a packages.json can hold.
PackageMaps == UNION {[S -> PackageEntries] : S \in SUBSET DbNames}

\* A PackagesDB, or the lack of one.
NoDB == [ok |-> FALSE, packages |-> EmptyMap]
DBs == {NoDB} \cup [ok : {TRUE}, packages : PackageMaps]

\* The VersionMeta the registry id holds for a version of a package.
VersionMeta(id, name, version) == <<"download", id, name, version>>

LoadCachedDB(cache, id) ==
  IF cache[id].ok
  THEN [err |-> NoErr, Packages |-> cache[id].packages, SourceID |-> id]
  ELSE [err |-> "no cached DB", Packages |-> EmptyMap, SourceID |-> ""]

\* strings.Contains(s, sub) on the names, descriptions and queries used here.
StrContains(s, sub) ==
  \/ sub = ""
  \/ sub = s
  \/ <<s, sub>> \in {<<"sensor", "sens">>, <<"motor", "mot">>}

Queries == {"", "dht", "sens", "Motor"}

\* The rank of a package name in the order of sort.Slice on Name.
NameRank(name) ==
  CASE name = "dht" -> 1
    [] name = "oled" -> 2
    [] name = "servo" -> 3
    [] OTHER -> 4

\* sort.Slice(results, by Name) on results with distinct names.
RECURSIVE SortByName(_)
SortByName(S) ==
  IF S = {} THEN <<>>
  ELSE LET first == CHOOSE r \in S : \A q \in S : NameRank(r.Name) <= NameRank(q.Name)
       IN <<first>> \o SortByName(S \ {first})

\* The condition under which Search records a hit.
SearchMatches(name, entry, query) ==
  LET q == ToLower(query)
  IN \/ q = ""
     \/ StrContains(ToLower(name), q)
     \/ StrContains(ToLower(entry.Description), q)

\* The loop of Search over kf.Registries from source i on: the hits, given
\* those found and the names seen so far.
RECURSIVE SearchFrom(_, _, _, _, _, _)
SearchFrom(keys, cache, query, i, results, seen) ==
  IF i > Len(keys) THEN results
  ELSE LET db == LoadCachedDB(cache, keys[i])
           hits == {n \in DOMAIN db.Packages \ seen :
                      SearchMatches(n, db.Packages[n], query)}
       IN IF db.err # NoErr
          THEN SearchFrom(keys, cache, query, i + 1, results, seen)
          ELSE SearchFrom(keys, cache, query, i + 1,
                 results \cup
                   {[Name |-> n,
                     Version |-> db.Packages[n].Latest,
                     Description |-> db.Packages[n].Description,
                     RegistryID |-> keys[i]] : n \in hits},
                 seen \cup hits)

\* Search(query): the sorted hits, or the error of LoadKeys.
Search(keysOK, keys, cache, query) ==
  IF ~keysOK THEN [err |-> "reading keys.json", results |-> <<>>]
  ELSE [err |-> NoErr,
        results |-> SortByName(SearchFrom(keys, cache, query, 1, {}, {}))]

NoCall == [op |-> "none"]

DbSearch ==
  /\ \E query \in Queries, keysOK \in BOOLEAN :
       kCall' = [op |-> "Search", query |-> query, keysOK |-> keysOK,
                 ret |-> Search(keysOK, kKeys, kCache, query)]
  /\ UNCHANGED <<kKeys, kRemote, kCache>>
  /\ UNCHANGED <<commandVars, otherThanDb>>

\* What the disk allows during one call: keys.json can be read or not, and
\* the cache file of each source can be written or not.
DiskStates ==
  {[keysOK |-> TRUE, saveOK |-> [id \in SourceIDSet |-> TRUE]],
   [keysOK |-> FALSE, saveOK |-> [id \in SourceIDSet |-> TRUE]]} \cup
  {[keysOK |-> TRUE, saveOK |-> [id \in SourceIDSet |-> id # bad]] : bad \in SourceIDSet}

\* FetchDB(src.PackagesURL) for the source with this id.
FetchDB(remote, id) ==
  IF remote[id].ok
  THEN [err |-> NoErr, Packages |-> remote[id].packages]
  ELSE [err |-> "fetching packages.json", Packages |-> EmptyMap]

\* The loop of UpdateDB over kf.Registries from source i on: the cache, the
\* results map and the errors, given those so far.  saveOK tells for which
\* ids SaveCachedDB succeeds.
RECURSIVE UpdateFrom(_, _, _, _, _, _, _)
UpdateFrom(keys, remote, saveOK, i, cache, results, errs) ==
  IF i > Len(keys) THEN [cache |-> cache, results |-> results, errs |-> errs]
  ELSE LET id == keys[i]
           db == FetchDB(remote, id)
       IN IF db.err # NoErr
          THEN UpdateFrom(keys, remote, saveOK, i + 1, cache, results,
                          Append(errs, <<id, db.err>>))
          ELSE IF ~saveOK[id]
          THEN UpdateFrom(keys, remote, saveOK, i + 1, cache, results,
                          Append(errs, <<id, "saving cache">>))
          ELSE UpdateFrom(keys, remote, saveOK, i + 1,
                 [cache EXCEPT ![id] = [ok |-> TRUE, packages |-> db.Packages]],
                 [r \in DOMAIN results \cup {id} |->
                    IF r = id THEN Cardinality(DOMAIN db.Packages) ELSE results[r]],
                 errs)

\* UpdateDB(): the results map and the errors, with the cache it leaves.
UpdateDB(keysOK, keys, remote, saveOK, cache) ==
  IF ~keysOK
  THEN [cache |-> cache, results |-> EmptyMap, errs |-> <<<<"", "reading keys.json">>>>]
  ELSE UpdateFrom(keys, remote, saveOK, 1, cache, EmptyMap, <<>>)

DbUpdateDB ==
  /\ \E env \in DiskStates :
       LET keysOK == env.keysOK
           saveOK == env.saveOK
           u == UpdateDB(keysOK, kKeys, kRemote, saveOK, kCache)
       IN /\ kCache' = u.cache
          /\ kCall' = [op |-> "UpdateDB", keysOK |-> keysOK,
                       results |-> u.results, errs |-> u.errs]
  /\ UNCHANGED <<kKeys, kRemote>>
  /\ UNCHANGED <<commandVars, otherThanDb>>

\* An install spec is the sequence of its parts, "@" and ":" among them.
SpecParts(reg, name, version) ==
  (IF reg = "" THEN <<>> ELSE <<reg, "@">>) \o <<name>> \o
  (IF version = "" THEN <<>> ELSE <<":", version>>)

InstallSpecs ==
  {SpecParts(reg, name, version) :
     reg \in {"", SourceIDs[2]}, name \in DbNames, version \in {"", "^1", "2.0.0"}}

\* strings.Index(spec, sep): the position of the first sep, 0 for none.
IndexOf(spec, sep) ==
  IF \E i \in 1..Len(spec) : spec[i] = sep
  THEN CHOOSE i \in 1..Len(spec) : spec[i] = sep /\ \A j \in 1..(i - 1) : spec[j] # sep
  ELSE 0

\* The text of a part of a spec: "" for an empty part.
PartText(parts) == IF parts = <<>> THEN "" ELSE parts[1]

ParseSpec(spec) ==
  LET at == IndexOf(spec, "@")
      rest == IF at # 0 THEN SubSeq(spec, at + 1, Len(spec)) ELSE spec
      colon == IndexOf(rest, ":")
  IN [registryID |-> IF at # 0 THEN PartText(SubSeq(spec, 1, at - 1)) ELSE "",
      name |-> IF colon # 0 THEN PartText(SubSeq(rest, 1, colon - 1)) ELSE PartText(rest),
      version |-> IF colon # 0 THEN PartText(SubSeq(rest, colon + 1, Len(rest))) ELSE ""]

\* fmt.Sscanf(s, "%d.%d.%d") on the versions and the constraints used here,
\* the constraint already stripped of its leading "^~>=<".
parseSemver(s) ==
  CASE s \in {"1.0.0", "1"} -> <<1, 0, 0>>
    [] s = "2.0.0" -> <<2, 0, 0>>
    [] OTHER -> <<0, 0, 0>>

\* strings.TrimLeft(constraint, "^~>=<")
TrimOperators(constraint) == IF constraint = "^1" THEN "1" ELSE constraint

compareSemver(a, b) ==
  LET av == parseSemver(a)
      bv == parseSemver(b)
  IN IF av[1] # bv[1] THEN (IF av[1] < bv[1] THEN -1 ELSE 1)
     ELSE IF av[2] # bv[2] THEN (IF av[2] < bv[2] THEN -1 ELSE 1)
     ELSE IF av[3] # bv[3] THEN (IF av[3] < bv[3] THEN -1 ELSE 1)
     ELSE 0

\* The stripped constraint never starts with "~", so only the major counts.
matchesConstraint(version, constraint) ==
  parseSemver(TrimOperators(constraint))[1] = parseSemver(version)[1]

NoVersion == [version |-> "", ok |-> FALSE]

\* The last of the versions sorted by compareSemver.
Highest(versions) ==
  IF versions = {} THEN NoVersion
  ELSE [version |-> CHOOSE v \in versions :
                      \A w \in versions : compareSemver(w, v) <= 0,
        ok |-> TRUE]

pickLatest(versions) == Highest(versions)

resolveSemver(versions, constraint) ==
  IF constraint = "" THEN pickLatest(versions)
  ELSE Highest({v \in versions : matchesConstraint(v, constraint)})

\* The body of Resolve's loop once the entry is found: the version it settles
\* on, if any.
ResolveVersion(entry, version) ==
  LET resolvedVer == IF version = "" THEN entry.Latest ELSE version
  IN IF resolvedVer \in entry.Versions
     THEN [version |-> resolvedVer, ok |-> TRUE]
     ELSE resolveSemver(entry.Versions, version)

\* loadDB(src, allowFetch): the DB and the cache it leaves.
loadDB(cache, remote, id, allowFetch, saveOK) ==
  LET cached == LoadCachedDB(cache, id)
      fetched == FetchDB(remote, id)
  IN IF cached.err = NoErr
     THEN [err |-> NoErr, Packages |-> cached.Packages, cache |-> cache]
     ELSE IF ~allowFetch
     THEN [err |-> cached.err, Packages |-> EmptyMap, cache |-> cache]
     ELSE IF fetched.err # NoErr
     THEN [err |-> fetched.err, Packages |-> EmptyMap, cache |-> cache]
     ELSE [err |-> NoErr, Packages |-> fetched.Packages,
           cache |-> IF saveOK[id]
                     THEN [cache EXCEPT ![id] = [ok |-> TRUE, packages |-> fetched.Packages]]
                     ELSE cache]

NoPackage == [Name |-> "", Version |-> "", RegistryID |-> "", DownloadURL |-> <<>>]

\* The loop of Resolve over sources from source i on.
RECURSIVE ResolveFrom(_, _, _, _, _, _, _, _)
ResolveFrom(sources, i, cache, remote, name, version, allowFetch, saveOK) ==
  IF i > Len(sources)
  THEN [err |-> "not found in any configured registry", pkg |-> NoPackage,
        cache |-> cache]
  ELSE LET db == loadDB(cache, remote, sources[i], allowFetch, saveOK)
       IN IF db.err # NoErr \/ name \notin DOMAIN db.Packages
          THEN ResolveFrom(sources, i + 1, db.cache, remote, name, version,
                           allowFetch, saveOK)
          ELSE LET v == ResolveVersion(db.Packages[name], version)
               IN IF ~v.ok
                  THEN [err |-> "version not found", pkg |-> NoPackage,
                        cache |-> db.cache]
                  ELSE [err |-> NoErr,
                        pkg |-> [Name |-> name, Version |-> v.version,
                                 RegistryID |-> sources[i],
                                 DownloadURL |-> VersionMeta(sources[i], name, v.version)],
                        cache |-> db.cache]

\* The sources Resolve searches.
ResolveSources(keys, regID) ==
  IF regID = "" THEN keys ELSE SelectSeq(keys, LAMBDA id : id = regID)

Resolve(keysOK, keys, cache, remote, spec, allowFetch, saveOK) ==
  LET p == ParseSpec(spec)
      sources == ResolveSources(keys, p.registryID)
  IN IF ~keysOK
     THEN [err |-> "reading keys.json", pkg |-> NoPackage, cache |-> cache]
     ELSE IF p.registryID # "" /\ Len(sources) = 0
     THEN [err |-> "registry not found in keys.json", pkg |-> NoPackage,
           cache |-> cache]
     ELSE ResolveFrom(sources, 1, cache, remote, p.name, p.version, allowFetch, saveOK)

DbResolve ==
  /\ \E spec \in InstallSpecs, allowFetch \in BOOLEAN, env \in DiskStates :
       LET keysOK == env.keysOK
           saveOK == env.saveOK
           r == Resolve(keysOK, kKeys, kCache, kRemote, spec, allowFetch, saveOK)
       IN /\ kCache' = r.cache
          /\ kCall' = [op |-> "Resolve", spec |-> spec, allowFetch |-> allowFetch,
                       keysOK |-> keysOK, before |-> kCache,
                       ret |-> [err |-> r.err, pkg |-> r.pkg]]
  /\ UNCHANGED <<kKeys, kRemote>>
  /\ UNCHANGED <<commandVars, otherThanDb>>

\* No registry source is configured and nothing is cached.
DbIdle ==
  /\ kKeys = <<>>
  /\ kRemote = [id \in SourceIDSet |-> NoDB]
  /\ kCache = [id \in SourceIDSet |-> NoDB]
  /\ kCall = NoCall

\* The indexes whose entries are all among E.
DBsOver(E) == {db \in DBs : \A n \in DOMAIN db.packages : db.packages[n] \in E}

\* Any keys.json over the known sources, an empty cache, and behind each
\* source any packages.json with entries among E.
DbStart(E) ==
  /\ kKeys \in {SubSeq(SourceIDs, 1, n) : n \in 0..Len(SourceIDs)}
  /\ kRemote \in [SourceIDSet -> DBsOver(E)]
  /\ kCache = [id \in SourceIDSet |-> NoDB]
  /\ kCall = NoCall

\* Indexes that differ in what they say of a package.
DbInit == DbStart({e \in PackageEntries : e.Latest = "1.0.0" /\ e.Versions = {"1.0.0"}})

\* Indexes that differ in the versions they hold of a package.
ResolveInit == DbStart({e \in PackageEntries : e.Description = "sensor"})

\* ---------------------------------------------------------------- config
\* A URL as written in the environment or the config file: a line, with any
\* white space around it; <<>> is the empty string.
defaultRegistryURL == <<"https://default">>
RawUrls ==
  {<<>>, <<" ">>, <<"https://a">>, <<" ", "https://a", " ">>, <<"https://b">>,
   defaultRegistryURL}

RECURSIVE SeqsUpTo(_, _)
SeqsUpTo(S, n) ==
  IF n = 0 THEN {<<>>}
  ELSE SeqsUpTo(S, n - 1) \cup
       {Append(s, x) : s \in {t \in SeqsUpTo(S, n - 1) : Len(t) = n - 1}, x \in S}

\* The closure add of ResolvedRegistryURLs without its seen check.
addUnseen(acc, u) ==
  LET t == TrimSpace(u)
  IN IF t # <<>>
     THEN [urls |-> Append(acc.urls, t), seen |-> acc.seen \cup {t}]
     ELSE acc

\* The closure add of ResolvedRegistryURLs, on its urls and seen.
add(acc, u) ==
  LET t == TrimSpace(u)
  IN IF t # <<>> /\ t \notin acc.seen
     THEN [urls |-> Append(acc.urls, t), seen |-> acc.seen \cup {t}]
     ELSE acc

RECURSIVE addAll(_, _)
addAll(acc, us) == IF us = <<>> THEN acc ELSE addAll(add(acc, Head(us)), Tail(us))

ResolvedRegistryURLs(c, env) ==
  LET start == [urls |-> <<>>, seen |-> {}]
      withEnv == IF env # <<>> THEN add(start, env) ELSE start
      withList == addAll(withEnv, c.RegistryURLs)
      withLegacy == add(withList, c.RegistryURL)
  IN IF Len(withLegacy.urls) = 0
     THEN add(withLegacy, defaultRegistryURL).urls
     ELSE withLegacy.urls

\* config.Default(), as far as the registries go.
DefaultConfig == [loaded |-> TRUE, nil |-> FALSE, RegistryURLs |-> <<>>, RegistryURL |-> <<>>]
NilConfig == [loaded |-> TRUE, nil |-> TRUE, RegistryURLs |-> <<>>, RegistryURL |-> <<>>]
NotLoaded == [loaded |-> FALSE, nil |-> TRUE, RegistryURLs |-> <<>>, RegistryURL |-> <<>>]

\* config.Load() on a config file.
Load(file) ==
  CASE file.state = "missing" -> DefaultConfig
    [] file.state \in {"unreadable", "garbled"} -> NilConfig
    [] OTHER ->
         [loaded |-> TRUE, nil |-> FALSE,
          RegistryURLs |-> IF Len(file.RegistryURLs) = 0 /\ file.RegistryURL # <<>>
                           THEN <<file.RegistryURL>>
                           ELSE file.RegistryURLs,
          RegistryURL |-> file.RegistryURL]

ConfigFiles ==
  {[state |-> st, RegistryURLs |-> <<>>, RegistryURL |-> <<>>] :
     st \in {"missing", "unreadable", "garbled"}} \cup
  [state : {"ok"}, RegistryURLs : SeqsUpTo(RawUrls, MaxUrls), RegistryURL : RawUrls]

ConfigLoad ==
  /\ ~gCfg.loaded
  /\ gCfg' = Load(gFile)
  /\ UNCHANGED <<gEnv, gFile, gUrls>>
  /\ UNCHANGED <<commandVars, otherThanConfig>>

\* A caller that got no Config falls back on config.Default().
ConfigResolveURLs ==
  /\ gCfg.loaded
  /\ ~gUrls.called
  /\ gUrls' = [called |-> TRUE,
               urls |-> ResolvedRegistryURLs(IF gCfg.nil THEN DefaultConfig ELSE gCfg, gEnv)]
  /\ UNCHANGED <<gEnv, gFile, gCfg>>
  /\ UNCHANGED <<commandVars, otherThanConfig>>

ConfigIdle ==
  /\ gEnv = <<>>
  /\ gFile = [state |-> "missing", RegistryURLs |-> <<>>, RegistryURL |-> <<>>]
  /\ gCfg = NotLoaded
  /\ gUrls = [called |-> FALSE, urls |-> <<>>]

ConfigInit ==
  /\ gEnv \in RawUrls
  /\ gFile \in ConfigFiles
  /\ gCfg = NotLoaded
  /\ gUrls = [called |-> FALSE, urls |-> <<>>]

\* --------------------------------------------- manifest: dependencies
DepVersions == {"1.0.0", "^1.0.0", "2.0.0"}

\* HasPackage with a loop that looks at the first package only.
HasPackageFirstOnly(packages, name) ==
  packages # <<>> /\ packages[1].Name = name

\* m.HasPackage(name)
HasPackage(packages, name) ==
  \E i \in 1..Len(packages) : packages[i].Name = name

\* m.Dependencies[name] = DepSpec{Version: version}
SetDep(deps, name, version) ==
  [n \in DOMAIN deps \cup {name} |-> IF n = name THEN version ELSE deps[n]]

\* delete(m.Dependencies, name)
DeleteDep(deps, name) == [n \in DOMAIN deps \ {name} |-> deps[n]]

\* m.AddPackage(name, version): the manifest it leaves and what it returns.
AddPackage(packages, deps, name, version) ==
  IF HasPackage(packages, name)
  THEN [Packages |-> packages, Dependencies |-> deps, ret |-> FALSE]
  ELSE [Packages |-> Append(packages, [Name |-> name, Version |-> version]),
        Dependencies |-> SetDep(deps, name, version),
        ret |-> TRUE]

\* m.RemovePackage(name): the first package of that name goes.
RemovePackage(packages, deps, name) ==
  IF \E i \in 1..Len(packages) : packages[i].Name = name
  THEN LET i == CHOOSE i \in 1..Len(packages) :
                  packages[i].Name = name /\ \A j \in 1..(i - 1) : packages[j].Name # name
       IN [Packages |-> SubSeq(packages, 1, i - 1) \o SubSeq(packages, i + 1, Len(packages)),
           Dependencies |-> DeleteDep(deps, name),
           ret |-> TRUE]
  ELSE [Packages |-> packages, Dependencies |-> deps, ret |-> FALSE]

DepAdd ==
  /\ \E name \in PkgSet, version \in DepVersions :
       LET r == AddPackage(dPackages, dDependencies, name, version)
       IN /\ dPackages' = r.Packages
          /\ dDependencies' = r.Dependencies
          /\ dCall' = [op |-> "AddPackage", name |-> name, version |-> version,
                       ret |-> r.ret,
                       before |-> [Packages |-> dPackages, Dependencies |-> dDependencies]]
  /\ UNCHANGED <<commandVars, otherThanDep>>

DepRemove ==
  /\ \E name \in PkgSet :
       LET r == RemovePackage(dPackages, dDependencies, name)
       IN /\ dPackages' = r.Packages
          /\ dDependencies' = r.Dependencies
          /\ dCall' = [op |-> "RemovePackage", name |-> name, version |-> "",
                       ret |-> r.ret,
                       before |-> [Packages |-> dPackages, Dependencies |-> dDependencies]]
  /\ UNCHANGED <<commandVars, otherThanDep>>

\* The "packages" array a tsuki_package.json may hold: any packages, a name
\* possibly more than once.
JSONPackages == SeqsUpTo([Name : PkgSet, Version : DepVersions], MaxPkgs)

\* loadJSON: Packages as the file lists them, Dependencies rebuilt from them.
RECURSIVE DepsOf(_, _)
DepsOf(deps, packages) ==
  IF packages = <<>> THEN deps
  ELSE DepsOf(SetDep(deps, Head(packages).Name, Head(packages).Version), Tail(packages))

loadJSON(packages) == [Packages |-> packages, Dependencies |-> DepsOf(EmptyMap, packages)]

\* The values a [dependencies] table may give a name: a version string, a
\* table with a version, or a value of another type.
RawDepValues ==
  {[kind |-> "string", version |-> "1.0.0"], [kind |-> "table", version |-> "^1.0.0"],
   [kind |-> "other", version |-> ""]}

RawDeps == UNION {[S -> RawDepValues] : S \in SUBSET PkgSet}

\* parseDeps: values that are neither a string nor a table are left out.
parseDeps(raw) ==
  [n \in {k \in DOMAIN raw : raw[k].kind \in {"string", "table"}} |-> raw[n].version]

\* loadTOML: Dependencies parsed from [dependencies], Packages synthesised
\* from them in the order the range over the map yields, here `order`.
loadTOML(raw, order) ==
  LET deps == parseDeps(raw)
  IN [Packages |-> [i \in 1..Len(order) |-> [Name |-> order[i], Version |-> deps[order[i]]]],
      Dependencies |-> deps]

\* The orders in which a range over a map with these keys can yield them.
MapOrders(keys) == {o \in Arrangements(keys) : Len(o) = Cardinality(keys)}

\* The manifests Default and Load return.
LoadedManifests ==
  {loadJSON(p) : p \in JSONPackages} \cup
  UNION {{loadTOML(raw, o) : o \in MapOrders(DOMAIN parseDeps(raw))} : raw \in RawDeps}

\* A manifest obtained from Default or Load, and no edit made.
DepInit ==
  /\ \E m \in LoadedManifests :
       /\ dPackages = m.Packages
       /\ dDependencies = m.Dependencies
  /\ dCall = NoCall

\* manifest.Default(): no dependency, and no edit made.
DepIdle ==
  /\ dPackages = <<>>
  /\ dDependencies = EmptyMap
  /\ dCall = NoCall

\* ---------------------------------------------------- manifest: lock
LockEntries ==
  [Name : PkgSet, Version : {"1.0.0", "2.0.0"}, Registry : {"", SourceIDs[1]}]

NilEntry == [nil |-> TRUE, entry |-> [Name |-> "", Version |-> "", Registry |-> ""]]

\* The index of the first entry with this name, 0 for none.
FirstNamed(entries, name) ==
  IF \E i \in 1..Len(entries) : entries[i].Name = name
  THEN CHOOSE i \in 1..Len(entries) :
         entries[i].Name = name /\ \A j \in 1..(i - 1) : entries[j].Name # name
  ELSE 0

\* lf.Get(name)
Get(entries, name) ==
  LET i == FirstNamed(entries, name)
  IN IF i = 0 THEN NilEntry ELSE [nil |-> FALSE, entry |-> entries[i]]

\* Upsert without its loop: the entry is always appended.
UpsertAppend(entries, entry) == Append(entries, entry)

\* lf.Upsert(entry)
Upsert(entries, entry) ==
  LET i == FirstNamed(entries, entry.Name)
  IN IF i = 0 THEN Append(entries, entry) ELSE [entries EXCEPT ![i] = entry]

\* lf.Remove(name): the entries left and what it returns.
Remove(entries, name) ==
  LET i == FirstNamed(entries, name)
  IN IF i = 0 THEN [Entries |-> entries, ret |-> FALSE]
     ELSE [Entries |-> SubSeq(entries, 1, i - 1) \o SubSeq(entries, i + 1, Len(entries)),
           ret |-> TRUE]

LockUpsert ==
  /\ \E entry \in LockEntries :
       /\ lEntries' = Upsert(lEntries, entry)
       /\ lCall' = [op |-> "Upsert", entry |-> entry, name |-> entry.Name,
                    ret |-> FALSE, before |-> lEntries]
  /\ UNCHANGED <<commandVars, otherThanLock>>

LockRemove ==
  /\ \E name \in PkgSet :
       LET r == Remove(lEntries, name)
       IN /\ lEntries' = r.Entries
          /\ lCall' = [op |-> "Remove", entry |-> NilEntry.entry, name |-> name,
                       ret |-> r.ret, before |-> lEntries]
  /\ UNCHANGED <<commandVars, otherThanLock>>

\* LoadLock on a project without a lock file: the empty LockFile.
LockIdle ==
  /\ lEntries = <<>>
  /\ lCall = NoCall

\* ------------------------------------------------------ cli: updatedb
\* The base URL of a registry key: its parts, <<>> for the empty string of
\* an entry without "url".
KeyUrls == {<<>>, <<"https://a">>, <<"https://b", "/">>}

registryKeys == [Name : {"official", "mirror"}, URL : KeyUrls]

defaultKeys == <<[Name |-> "tsuki-official", URL |-> <<"https://raw.githubusercontent.com">>]>>

KeysFiles ==
  {[state |-> st, keys |-> <<>>] : st \in {"missing", "unreadable", "garbled"}} \cup
  [state : {"ok"}, keys : SeqsUpTo(registryKeys, MaxListed)]

NoRunReturn == [returned |-> FALSE, err |-> NoErr, summary |-> <<>>]

\* RunE up to the loop: keys.json is read, created when missing, and parsed.
UpdateDBStart ==
  /\ qPc = "start"
  /\ \E writeOK \in BOOLEAN :
       LET created == qFile.state = "missing" /\ writeOK
           keys == IF created THEN defaultKeys ELSE qFile.keys
           err == CASE qFile.state = "missing" /\ ~writeOK -> "creating keys.json"
                    [] qFile.state = "unreadable" -> "reading keys.json"
                    [] qFile.state = "garbled" -> "parsing keys.json"
                    [] OTHER -> NoErr
       IN /\ qFile' = IF created THEN [state |-> "ok", keys |-> defaultKeys] ELSE qFile
          /\ IF err # NoErr
             THEN /\ qPc' = "done"
                  /\ qReturn' = [returned |-> TRUE, err |-> err, summary |-> <<>>]
                  /\ UNCHANGED qKeys
             ELSE IF Len(keys) = 0
             THEN /\ qPc' = "done"
                  /\ qReturn' = [returned |-> TRUE, err |-> NoErr,
                                 summary |-> <<"No registry keys configured">>]
                  /\ qKeys' = keys
             ELSE /\ qPc' = "loop"
                  /\ qKeys' = keys
                  /\ UNCHANGED qReturn
  /\ UNCHANGED <<qIdx, qOk, qFail, qFetched, qCached>>
  /\ UNCHANGED <<commandVars, otherThanUpdatedb>>

\* key.URL with "/" appended when it does not end in one, then packages.json.
PackagesURL(url) ==
  (IF url[Len(url)] # "/" THEN Append(url, "/") ELSE url) \o <<"packages.json">>

\* One iteration of the loop over keys.  Indexing the last byte of an empty
\* URL panics.
UpdateDBFetch ==
  /\ qPc = "loop"
  /\ qIdx <= Len(qKeys)
  /\ LET key == qKeys[qIdx]
     IN IF Len(key.URL) = 0
        THEN /\ qPc' = "panicked"
             /\ UNCHANGED <<qIdx, qOk, qFail, qFetched, qCached>>
        ELSE \E fetchOK \in BOOLEAN, writeOK \in BOOLEAN :
               /\ qFetched' = Append(qFetched, PackagesURL(key.URL))
               /\ qCached' = IF fetchOK /\ writeOK
                             THEN qCached \cup {<<key.Name, ".json">>}
                             ELSE qCached
               /\ qOk' = IF fetchOK /\ writeOK THEN qOk + 1 ELSE qOk
               /\ qFail' = IF fetchOK /\ writeOK THEN qFail ELSE qFail + 1
               /\ qIdx' = qIdx + 1
               /\ UNCHANGED qPc
  /\ UNCHANGED <<qFile, qKeys, qReturn>>
  /\ UNCHANGED <<commandVars, otherThanUpdatedb>>

\* After the loop: the summary line, and a nil error.
UpdateDBFinish ==
  /\ qPc = "loop"
  /\ qIdx > Len(qKeys)
  /\ qPc' = "done"
  /\ qReturn' = [returned |-> TRUE, err |-> NoErr,
                 summary |-> IF qFail > 0
                             THEN <<"updated", qOk, Len(qKeys), qFail>>
                             ELSE <<"updated", qOk>>]
  /\ UNCHANGED <<qFile, qKeys, qIdx, qOk, qFail, qFetched, qCached>>
  /\ UNCHANGED <<commandVars, otherThanUpdatedb>>

UpdatedbStart ==
  /\ qPc = "start"
  /\ qKeys = <<>>
  /\ qIdx = 1
  /\ qOk = 0
  /\ qFail = 0
  /\ qFetched = <<>>
  /\ qCached = {}
  /\ qReturn = NoRunReturn

UpdatedbIdle ==
  /\ qFile = [state |-> "missing", keys |-> <<>>]
  /\ UpdatedbStart

UpdatedbInit ==
  /\ qFile \in KeysFiles
  /\ UpdatedbStart

\* ------------------------------------------------- build: sketch name
\* The characters of a project name: letters, the underscore, a digit and
\* a character that is none of them.
Letters == {"a", "Z"}
Digits == {"7"}
NameChars == Letters \cup Digits \cup {"_", "-"}
ProjectNames == SeqsUpTo(NameChars, MaxNameLen)

\* One round of the loop of sanitizeSketchName: the builder after the
\* character at byte offset i (the names here are ASCII).
SketchRune(sb, i, r) ==
  CASE r \in Letters \cup {"_"} -> Append(sb, r)
    [] r \in Digits -> IF i > 0 THEN Append(sb, r) ELSE sb
    [] OTHER -> IF Len(sb) > 0 THEN Append(sb, "_") ELSE sb

RECURSIVE SketchFrom(_, _, _)
SketchFrom(sb, name, i) ==
  IF i >= Len(name) THEN sb
  ELSE SketchFrom(SketchRune(sb, i, name[i + 1]), name, i + 1)

sanitizeSketchName(name) == SketchFrom(<<>>, name, 0)

SketchName ==
  /\ \E name \in ProjectNames :
       sCall' = [op |-> "sanitizeSketchName", name |-> name,
                 ret |-> sanitizeSketchName(name)]
  /\ UNCHANGED <<commandVars, otherThanSketch>>

\* No name sanitized yet.
SketchIdle == sCall = NoCall

\* ------------------------------------------------------ build: rebuilds
\* The manifest file of a project: tsuki-config.toml with its [dependencies],
\* or the legacy JSON file with its "packages".
ManifestFiles ==
  {[kind |-> "toml", raw |-> raw, packages |-> <<>>] : raw \in RawDeps} \cup
  {[kind |-> "json", raw |-> EmptyMap, packages |-> p] : p \in JSONPackages}

\* manifest.Load of the file: the manifests it can return.
LoadFile(file) ==
  IF file.kind = "toml"
  THEN {loadTOML(file.raw, o) : o \in MapOrders(DOMAIN parseDeps(file.raw))}
  ELSE {loadJSON(file.packages)}

\* Run on the loaded manifest, every declared package installed: the
\* argument lists of the transpiler runs, the loop stopping after n files.
TranspileArgLists(m, n) ==
  [i \in 1..n |-> TranspileArgs(TranspileRequest(FileNames[i], PackageNames(m.Packages)))]

\* One `tsuki build` of the project.
Rebuild ==
  /\ Len(rBuilds) < MaxBuilds
  /\ \E m \in LoadFile(rManifest), n \in 1..Len(FileNames) :
       rBuilds' = Append(rBuilds, TranspileArgLists(m, n))
  /\ UNCHANGED rManifest
  /\ UNCHANGED <<commandVars, otherThanRebuild>>

\* No project looked at.
RebuildIdle ==
  /\ rManifest = [kind |-> "json", raw |-> EmptyMap, packages |-> <<>>]
  /\ rBuilds = <<>>

\* Some project, not built yet.
RebuildInit ==
  /\ rManifest \in ManifestFiles
  /\ rBuilds = <<>>

\* ------------------------------------------------------ config: Set, Get
\* Fields of Config, in the order of the struct: a string, an int, a bool
\* and a slice of strings.
ConfigFields ==
  <<[Name |-> "DefaultBoard", tag |-> "default_board", kind |-> "string"],
    [Name |-> "DefaultBaud", tag |-> "default_baud", kind |-> "int"],
    [Name |-> "Verbose", tag |-> "verbose", kind |-> "bool"],
    [Name |-> "RegistryURLs", tag |-> "registry_urls", kind |-> "slice"]>>

\* config.Default(), these fields of it. A string is its characters.
DefaultSettings ==
  [DefaultBoard |-> <<"u", "n", "o">>, DefaultBaud |-> 9600, Verbose |-> FALSE,
   RegistryURLs |-> <<>>]

\* The keys and the values given on the command line.
SetKeys == {"default_board", "default_baud", "DefaultBaud", "verbose", "registry_urls", "nope"}
SetValues ==
  {<<>>, <<"t">>, <<"0">>, <<"9", "6">>, <<"-", "5">>, <<"9", "x">>, <<"a", ",", " ", "b">>}

\* The field a key names: the first whose json tag is the key or whose name
\* is the key but for case; 0 when there is none.
FieldIndex(key) ==
  LET hit(i) == \/ ConfigFields[i].tag = key
                \/ ToLower(ConfigFields[i].Name) = ToLower(key)
  IN IF \E i \in 1..Len(ConfigFields) : hit(i)
     THEN CHOOSE i \in 1..Len(ConfigFields) : hit(i) /\ \A j \in 1..(i - 1) : ~hit(j)
     ELSE 0

\* strconv.ParseBool
ParseBool(s) ==
  IF s \in {<<"1">>, <<"t">>, <<"T">>, <<"t", "r", "u", "e">>, <<"T", "R", "U", "E">>,
            <<"T", "r", "u", "e">>}
  THEN [b |-> TRUE, ok |-> TRUE]
  ELSE IF s \in {<<"0">>, <<"f">>, <<"F">>, <<"f", "a", "l", "s", "e">>,
                 <<"F", "A", "L", "S", "E">>, <<"F", "a", "l", "s", "e">>}
  THEN [b |-> FALSE, ok |-> TRUE]
  ELSE [b |-> FALSE, ok |-> FALSE]

DigitChars == <<"0", "1", "2", "3", "4", "5", "6", "7", "8", "9">>
IsDigitChar(c) == \E d \in 1..Len(DigitChars) : DigitChars[d] = c
DigitValue(c) == (CHOOSE d \in 1..Len(DigitChars) : DigitChars[d] = c) - 1

RECURSIVE DigitsValue(_, _)
DigitsValue(acc, s) ==
  IF s = <<>> THEN acc ELSE DigitsValue(acc * 10 + DigitValue(Head(s)), Tail(s))

\* strconv.ParseInt(s, 10, 64); the values here have too few digits to leave
\* the range of int64.
ParseInt(s) ==
  LET signed == s # <<>> /\ Head(s) \in {"+", "-"}
      digits == IF signed THEN Tail(s) ELSE s
      n == DigitsValue(0, digits)
  IN IF digits = <<>> \/ \E i \in 1..Len(digits) : ~IsDigitChar(digits[i])
     THEN [n |-> 0, ok |-> FALSE]
     ELSE [n |-> IF signed /\ Head(s) = "-" THEN 0 - n ELSE n, ok |-> TRUE]

\* strings.Split(value, ","), each part through strings.TrimSpace
RECURSIVE SplitTrimmed(_)
SplitTrimmed(value) ==
  LET i == IndexOf(value, ",")
  IN IF i = 0 THEN <<TrimSpace(value)>>
     ELSE <<TrimSpace(SubSeq(value, 1, i - 1))>>
            \o SplitTrimmed(SubSeq(value, i + 1, Len(value)))

\* What an unparsable value leaves in a field of this kind, had Set stored
\* the result of the parse before looking at its error.
ZeroValue(kind) == IF kind = "bool" THEN FALSE ELSE 0

\* Set, had it stored the result of the parse before looking at its error.
SetStoresBeforeCheck(c, key, value) ==
  LET i == FieldIndex(key) IN
  IF i = 0 THEN [cfg |-> c, err |-> "unknown config key"]
  ELSE LET f == ConfigFields[i] IN
       CASE f.kind = "string" -> [cfg |-> [c EXCEPT ![f.Name] = value], err |-> NoErr]
         [] f.kind = "bool" ->
              [cfg |-> [c EXCEPT ![f.Name] = ParseBool(value).b],
               err |-> IF ParseBool(value).ok THEN NoErr ELSE "invalid bool value"]
         [] f.kind = "int" ->
              [cfg |-> [c EXCEPT ![f.Name] = ParseInt(value).n],
               err |-> IF ParseInt(value).ok THEN NoErr ELSE "invalid int value"]
         [] OTHER -> [cfg |-> [c EXCEPT ![f.Name] = SplitTrimmed(value)], err |-> NoErr]

\* c.Set(key, value): the config it leaves and the error it returns.
Set(c, key, value) ==
  LET i == FieldIndex(key) IN
  IF i = 0 THEN [cfg |-> c, err |-> "unknown config key"]
  ELSE LET f == ConfigFields[i] IN
       CASE f.kind = "string" -> [cfg |-> [c EXCEPT ![f.Name] = value], err |-> NoErr]
         [] f.kind = "bool" ->
              IF ~ParseBool(value).ok THEN [cfg |-> c, err |-> "invalid bool value"]
              ELSE [cfg |-> [c EXCEPT ![f.Name] = ParseBool(value).b], err |-> NoErr]
         [] f.kind = "int" ->
              IF ~ParseInt(value).ok THEN [cfg |-> c, err |-> "invalid int value"]
              ELSE [cfg |-> [c EXCEPT ![f.Name] = ParseInt(value).n], err |-> NoErr]
         [] OTHER -> [cfg |-> [c EXCEPT ![f.Name] = SplitTrimmed(value)], err |-> NoErr]

\* c.Get(key): the value of the field and the error.
GetKey(c, key) ==
  LET i == FieldIndex(key) IN
  IF i = 0 THEN [val |-> "nil", err |-> "unknown config key"]
  ELSE [val |-> c[ConfigFields[i].Name], err |-> NoErr]

NoSet == [ok |-> FALSE, key |-> "", value |-> <<>>]

SettingsSet ==
  /\ \E key \in SetKeys, value \in SetValues :
       LET r == Set(setCfg, key, value)
       IN /\ setCfg' = r.cfg
          /\ setCall' = [op |-> "Set", key |-> key, value |-> value, err |-> r.err,
                         before |-> setCfg]
  /\ UNCHANGED <<commandVars, otherThanSettings>>

\* A Get, and the Set it follows if the call before it was a Set that
\* returned no error.
SettingsGet ==
  /\ \E key \in SetKeys :
       LET r == GetKey(setCfg, key)
       IN setCall' = [op |-> "Get", key |-> key, val |-> r.val, err |-> r.err,
                      set |-> IF setCall.op = "Set" /\ setCall.err = NoErr
                              THEN [ok |-> TRUE, key |-> setCall.key, value |-> setCall.value]
                              ELSE NoSet]
  /\ UNCHANGED setCfg
  /\ UNCHANGED <<commandVars, otherThanSettings>>

\* config.Default(), and no call made.
SettingsIdle ==
  /\ setCfg = DefaultSettings
  /\ setCall = NoCall

\* ---------------------------------------------------------------- idle
\* The upload command and the build engine before they are run.
UploadIdle ==
  /\ uOpts = [Port |-> "", Backend |-> "", Board |-> "uno", Verbose |-> FALSE]
  /\ uPc = "start"
  /\ uPort = ""
  /\ uDetected = <<>>
  /\ programmerRuns = <<>>
  /\ uReturn = NoUploadReturn
  /\ uTraceback = NoTraceback

EngineIdle ==
  /\ eSrc = <<>>
  /\ eFlags = ""
  /\ eSdk = ""
  /\ manifest = [sdk |-> "", entries |-> <<>>]
  /\ ePhase = "idle"
  /\ eStatus = <<>>
  /\ eWriters = 0
  /\ eFirmware = FALSE
  /\ eSnap = <<>>
  /\ eRecompiled = {}
  /\ eRuns = 0
  /\ eEdits = 0
  /\ eLastInputs = NoInputs
  /\ eUnchanged = FALSE
  /\ ePrevFailed = {}

\* Nothing outside the four commands is running.
RestIdle ==
  /\ tSrc = <<>> /\ TransIdle
  /\ InstallIdle
  /\ RegistryIdle
  /\ DbIdle
  /\ ConfigIdle
  /\ DepIdle
  /\ LockIdle
  /\ UpdatedbIdle
  /\ SketchIdle
  /\ RebuildIdle
  /\ SettingsIdle

\* -------------------------------------------------- properties: build
\* An argument that names a file.
IsPathArg(a) == Len(a) = 3 /\ a[3] \in {".go", ".cpp"}

\* The header lines of warning diagnostics among collected lines.
WarningHeaders(lines) == SelectSeq(lines, LAMBDA l : l # <<>> /\ l[1] = "warning:")

AllExitZero == \A i \in 1..Len(bInvocations) : bInvocations[i].exit = 0

\* The warning diagnostics the transpiler runs of this build emitted, in order.
EmittedWarnings ==
  Flatten([i \in 1..Len(bInvocations) |->
             HeaderLines(bInvocations[i].diags, "warning")])

\* C2: the i-th transpiler run of a build is for the i-th .go file of src/ (so
\* no file is transpiled twice), it names that file as its one input and
\* <sketch dir>/<base>.cpp as its one output, a run follows only runs that
\* exited zero, and a build that succeeds has run the transpiler once for
\* every file and returns their outputs in Result.CppFiles in source order.
C2_OneRunPerFile ==
  /\ Len(bInvocations) <= Len(goFiles)
  /\ \A i \in 1..Len(bInvocations) :
       LET a == bInvocations[i].args IN
       /\ a[1] = <<"src", goFiles[i], ".go">>
       /\ a[2] = <<"build/sketch", goFiles[i], ".cpp">>
       /\ {k \in 1..Len(a) : IsPathArg(a[k])} = {1, 2}
       /\ i < Len(bInvocations) => bInvocations[i].exit = 0
  /\ (bReturn.returned /\ bReturn.err = NoErr) =>
       /\ Len(bInvocations) = Len(goFiles)
       /\ AllExitZero
       /\ bReturn.result.CppFiles =
            [i \in 1..Len(goFiles) |-> <<"build/sketch", goFiles[i], ".cpp">>]

\* A build of two source files has succeeded.
C2_Witness ==
  /\ bReturn.returned
  /\ bReturn.err = NoErr
  /\ Len(goFiles) = 2
  /\ Len(bInvocations) = 2
  /\ Len(bReturn.result.CppFiles) = 2

\* The declared packages with no directory under libs, as a set.
C3_Missing ==
  {mPackages[i].Name : i \in 1..Len(mPackages)} \ {e[1] : e \in libs}

\* C3: when a declared package is not installed no file is transpiled, and the
\* "not installed" error the build returns covers every missing declared
\* package.
C3_AggregateMissing ==
  /\ C3_Missing # {} => bInvocations = <<>>
  /\ bReturn.err = "package is not installed" => bReturn.pkgs = C3_Missing

\* C5: a transpile failure is returned only for a run that exited non-zero;
\* while every run has exited zero the warnings emitted so far are exactly the
\* warnings collected in the Result; and once every file is transpiled with
\* exit zero, the build that does not go on to compile succeeds, and any build
\* that succeeds returns the emitted warnings in Result.Warnings.
C5_WarningsNonFatal ==
  /\ bReturn.err = "transpilation failed" =>
       bInvocations # <<>> /\ bInvocations[Len(bInvocations)].exit # 0
  /\ AllExitZero => WarningHeaders(bResult.Warnings) = EmittedWarnings
  /\ (AllExitZero /\ bReturn.returned /\ inoWritten /\ compilerInvoked = "") =>
       bReturn.err = NoErr
  /\ (bReturn.returned /\ bReturn.err = NoErr) =>
       /\ ~bReturn.result.nil
       /\ WarningHeaders(bReturn.result.Warnings) = EmittedWarnings

\* A build has succeeded although both of its transpiler runs emitted warnings.
C5_Witness ==
  /\ bReturn.returned
  /\ bReturn.err = NoErr
  /\ Len(bInvocations) = 2
  /\ \A i \in 1..2 : CountSeverity(bInvocations[i].diags, "warning") >= 1
  /\ Len(bReturn.result.Warnings) >= 2

\* C21: the compile backend has been invoked only if the transpiler has run
\* for every source file, every run exited zero, and the .ino stub is
\* written; and once a transpiler run has exited non-zero it stays the last
\* run, the build has returned an error with a nil result, no .ino stub is
\* written and no compile backend is invoked.
C21_CompileAfterAllTranspiled ==
  /\ compilerInvoked # "" =>
       /\ Len(bInvocations) = Len(goFiles)
       /\ AllExitZero
       /\ inoWritten
  /\ inoWritten => (Len(bInvocations) = Len(goFiles) /\ AllExitZero)
  /\ \A i \in 1..Len(bInvocations) :
       bInvocations[i].exit # 0 =>
         /\ i = Len(bInvocations)
         /\ bReturn.returned
         /\ bReturn.err # NoErr
         /\ bReturn.result.nil
         /\ ~inoWritten
         /\ compilerInvoked = ""

\* A build that was asked to compile stopped at its second source file,
\* whose transpiler run failed.
C21_Witness ==
  /\ opts.Compile
  /\ Len(goFiles) = 2
  /\ Len(bInvocations) = 2
  /\ bInvocations[1].exit = 0
  /\ bInvocations[2].exit # 0
  /\ bReturn.returned

\* -------------------------------------------------- properties: check
\* The error issues the report holds for a file.
ErrorIssues(file) ==
  {k \in 1..Len(report.Errors) : report.Errors[k].File = file}

\* C1: the check report holds an error issue for a file if and only if the
\* transpiler exited non-zero for that file.
C1_ExitStatusDecides ==
  \A i \in 1..Len(cRuns) : (ErrorIssues(cRuns[i].file) # {}) <=> (cRuns[i].exit # 0)

\* C4: a checked file whose transpiler run emitted N >= 1 error diagnostics
\* has a failed outcome, no output file among the arguments of the run, and
\* exactly N errors in the report.
C4_ExactlyNErrors ==
  \A i \in 1..Len(cRuns) :
    LET n == CountSeverity(cRuns[i].diags, "error") IN
    n >= 1 =>
      /\ cRuns[i].exit # 0
      /\ \A k \in 1..Len(cRuns[i].args) : ~IsPathArg(cRuns[i].args[k])
      /\ Cardinality(ErrorIssues(cRuns[i].file)) = n

\* ------------------------------------------------- properties: upload
\* The serial ports the detect command listed.
DetectedPorts == {uDetected[i][1] : i \in 1..Len(uDetected)}

\* C10: when no port is given and no detected device matches a board, the
\* programmer is not run, the upload returns an error, and the error text
\* names every detected port.
C10_NoMatchNoUpload ==
  (/\ uOpts.Port = ""
   /\ uPc # "start"
   /\ \A i \in 1..Len(uDetected) : uDetected[i][2] = "unknown") =>
     /\ programmerRuns = <<>>
     /\ uPc = "done"
     /\ uReturn.err # NoErr
     /\ DetectedPorts \subseteq {uReturn.text[k] : k \in 1..Len(uReturn.text)}

\* The lines of the sample outputs that hold "error", "Error" or "not found",
\* as the programmer printed them.
ErrorBearing ==
  { <<" ", "avrdude:", "ser_open():", "error:", "can't", "open", "device", " ">>,
    <<"Error:", "port", "busy">>,
    <<"esptool:", "chip", "not", "found">> }

\* A printed line without the white space around it.
Stripped(l) ==
  SelectSeq(l, LAMBDA w : w # " ")

\* C11: an upload returns "upload failed" exactly when its programmer run
\* exited non-zero; it then shows a traceback whose message is the
\* programmer's lines that hold "error", "Error" or "not found", in order and
\* without the white space around them, or, when no line holds one, the whole
\* output; a run that exited zero shows no traceback.
C11_FailureShowsErrorLines ==
  \A i \in 1..Len(programmerRuns) :
    LET run == programmerRuns[i]
        bearing == SelectSeq(run.out, LAMBDA l : l \in ErrorBearing)
        printed == SelectSeq(run.out, LAMBDA l : l # <<>>)
    IN  /\ uReturn.returned
        /\ (run.exit # 0) <=> (uReturn.err = "upload failed")
        /\ (run.exit = 0) <=> (uReturn.err = NoErr)
        /\ uTraceback.shown <=> (run.exit # 0)
        /\ (run.exit # 0 /\ bearing # <<>>) =>
             uTraceback.msg = [k \in 1..Len(bearing) |-> Stripped(bearing[k])]
        /\ (run.exit # 0 /\ bearing = <<>>) =>
             SelectSeq(uTraceback.msg, LAMBDA l : l # <<>>) = printed

\* A failed upload whose programmer printed a line with an error and a line
\* without one.
C11_Witness ==
  /\ uReturn.err = "upload failed"
  /\ Len(programmerRuns) = 1
  /\ Len(programmerRuns[1].out) = 2
  /\ \E k \in 1..2 : programmerRuns[1].out[k] \in ErrorBearing
  /\ \E k \in 1..2 : programmerRuns[1].out[k] \notin ErrorBearing \cup {<<>>}
  /\ Len(uTraceback.msg) = 1

\* ------------------------------------------------- properties: engine
InRun == ePhase # "idle"

\* Every unit of the run is a hit, compiled or failed.
Drained == \A u \in Units : eStatus[u] \in {"cached", "ok", "failed"}

\* The persisted entry of a unit carries its content hash and the active flags.
EntryMatches(u) ==
  /\ manifest.entries[u].hash = eSrc[u]
  /\ manifest.entries[u].flags = eFlags

\* C6: during a run a unit is reused only while its persisted entry carries
\* both its content hash and the active flag fingerprint (under the installed
\* SDK version), and once the compiles of the run are over every unit whose
\* persisted entry differed in either one has been handed to the compiler.
C6_ReuseOnlyOnMatch ==
  /\ InRun =>
       \A u \in Units :
         eStatus[u] = "cached" =>
           EntryMatches(u) /\ (ePhase # "linking" => manifest.sdk = eSdk)
  /\ ePhase \in {"joined", "writing"} =>
       \A u \in Units : ~EntryMatches(u) => u \in eRecompiled

\* The compiles of a second run are over: one unit was reused, another one,
\* whose persisted entry carries an older content hash, was recompiled.
C6_Witness ==
  /\ ePhase = "joined"
  /\ \E u \in Units : eStatus[u] = "cached"
  /\ \E v \in Units :
       /\ v \in eRecompiled
       /\ manifest.entries[v] # NoEntry
       /\ manifest.entries[v].hash # eSrc[v]

PostWrite == ePhase = "linking" \/ (ePhase = "idle" /\ eRuns >= 1)

\* C8: a run in which a compile failed links no firmware; after the manifest
\* write the entry of every unit that compiled successfully in the run
\* describes the source and flags the run compiled; and a step changes a
\* unit's entry only to drop it or, after that unit's compile has succeeded,
\* to record it.
C8_FailureKeepsCache ==
  /\ [](Failed # {} => ~eFirmware)
  /\ [](PostWrite =>
          \A u \in Units :
            eStatus[u] = "ok" =>
              manifest.entries[u]
                = [hash |-> eLastInputs.src[u], flags |-> eLastInputs.flags])
  /\ [][\A u \in Units :
          manifest'.entries[u] # manifest.entries[u] =>
            manifest'.entries[u] = NoEntry \/ eStatus[u] = "ok"]_vars

\* A run has ended without a link: one unit failed to compile, another one
\* compiled and has its entry.
C8_Witness ==
  /\ ePhase = "idle"
  /\ eRuns >= 1
  /\ ~eFirmware
  /\ Failed # {}
  /\ \E u \in Units : eStatus[u] = "ok" /\ manifest.entries[u] # NoEntry

\* C9: at most one manifest write is in progress, and while the manifest is
\* being written, while the linker runs and once firmware is linked, no unit
\* of the run is waiting for the compiler or being compiled.
C9_WriteAndLinkAfterJoin ==
  /\ eWriters <= 1
  /\ (eWriters >= 1 \/ ePhase \in {"writing", "linking"} \/ eFirmware) => Drained

\* The manifest is being written after two units were compiled in the run.
C9_Witness ==
  /\ ePhase = "writing"
  /\ eWriters = 1
  /\ Cardinality(eRecompiled) >= 2

\* --------------------------------------------- properties: transpiler
\* The diagnostics produced for statement i.
DiagsOf(i) == {k \in 1..Len(tDiags) : tDiags[k].stmt = i}

\* The lines of the output file that come from statement i.
WrittenOf(i) == {k \in 1..Len(tWritten.lines) : tWritten.lines[k].stmt = i}

\* C12: a `go` statement never gets an error diagnostic, every line generated
\* for it is a comment, and a written output file holds exactly one line for
\* it, a comment; a run on a file with a channel type ends with a non-zero
\* exit, an UnsupportedConstructError for that statement and no output file.
C12_GoStubChanAborts ==
  \A i \in 1..Len(tSrc) :
    /\ tSrc[i].kind = "go" =>
         /\ \A k \in DiagsOf(i) :
              tDiags[k].severity # "error" /\ tDiags[k].kind # "ParseError"
         /\ \A k \in 1..Len(tOut) : tOut[k].stmt = i => tOut[k].kind = "comment"
         /\ tWritten.written =>
              /\ Cardinality(WrittenOf(i)) = 1
              /\ \A k \in WrittenOf(i) : tWritten.lines[k].kind = "comment"
    /\ tSrc[i].kind = "chan" =>
         /\ ~tWritten.written
         /\ tOut = <<>>
         /\ tPc = "done" =>
              /\ tExit # 0
              /\ \E k \in DiagsOf(i) : tDiags[k].kind = "UnsupportedConstructError"

\* The output file of a source with a `go` statement and an assignment is
\* written: a comment and a line of code.
C12_Witness ==
  /\ tPc = "done"
  /\ tExit = 0
  /\ tWritten.written
  /\ Len(tSrc) = 2
  /\ \E i \in 1..2 : tSrc[i].kind = "go"
  /\ \E k \in 1..Len(tWritten.lines) : tWritten.lines[k].kind = "code"
  /\ \E k \in 1..Len(tWritten.lines) : tWritten.lines[k].kind = "comment"

\* The placeholders of the templates: {0} for Show, {0} {1} {2} for
\* SetPixelColor.
C13_Placeholders(fn) == IF fn = "Show" THEN 1 ELSE 3

C14_WriteOnlyVerified ==
  \A i \in 1..Len(iLog) :
    (~iLog[i].cfg.nil /\ iLog[i].cfg.VerifySignatures) =>
      /\ iLog[i].wrote => iLog[i].verified
      /\ (iLog[i].verifyRan /\ ~iLog[i].verified) =>
           iLog[i].err # NoErr /\ ~iLog[i].wrote

\* C22: a package an Install call returned without error is one IsInstalled
\* finds, so that the build's check of the declared packages passes for it.
C22_InstalledIsRecognised ==
  \A i \in 1..Len(iLog) :
    iLog[i].err = NoErr => IsInstalled(LibsOnDisk(iDisk), iLog[i].name)

\* ---------------------------------------------- properties: registries
\* The registry at url was fetched and lists name.
Serves(url, name) == fWorld[url].ok /\ name \in fWorld[url].names

\* The positions in fUrls, among the first k, of the registries serving name.
ServingAmong(k, name) == {i \in 1..k : Serves(fUrls[i], name)}

EarliestOf(S) == CHOOSE i \in S : \A j \in S : i <= j

\* C15: at every point of FetchAllRegistries the merged view maps each name
\* served by a registry fetched so far to the package of the earliest such
\* registry in the configured order, and holds no other name; the view
\* returned on success is that of the whole list.
C15_FirstRegistryWins ==
  /\ \A n \in PkgSet :
       LET S == ServingAmong(fIdx - 1, n)
       IN IF S = {}
          THEN n \notin DOMAIN fMerged
          ELSE /\ n \in DOMAIN fMerged
               /\ fMerged[n] = RegistryPackage(fUrls[EarliestOf(S)], n)
               /\ fSourceMap[n] = fUrls[EarliestOf(S)]
  /\ (fReturn.returned /\ fReturn.err = NoErr) =>
       /\ fIdx = Len(fUrls) + 1
       /\ fReturn.packages = fMerged

\* A successful call in which two fetched registries list the same name.
C15_Witness ==
  /\ fReturn.returned
  /\ fReturn.err = NoErr
  /\ \E n \in PkgSet : Cardinality(ServingAmong(Len(fUrls), n)) >= 2

\* -------------------------------------------- properties: package index
\* The cached index of the i-th source of keys.json lists name.
CacheLists(i, name) == kCache[kKeys[i]].ok /\ name \in DOMAIN kCache[kKeys[i]].packages

\* Search deduplicates after filtering: a hit for a name is the entry of the
\* earliest source of keys.json whose cached entry for that name matches the
\* query, each name is hit at most once, and the hits are sorted by name.
SearchFirstMatchWins ==
  (kCall.op = "Search" /\ kCall.ret.err = NoErr) =>
    LET hits == kCall.ret.results
    IN /\ \A k \in 1..Len(hits) :
            LET S == {i \in 1..Len(kKeys) :
                        /\ CacheLists(i, hits[k].Name)
                        /\ SearchMatches(hits[k].Name,
                              kCache[kKeys[i]].packages[hits[k].Name], kCall.query)}
            IN S # {} /\ hits[k].RegistryID = kKeys[EarliestOf(S)]
       /\ \A k, l \in 1..Len(hits) :
            k < l => NameRank(hits[k].Name) < NameRank(hits[l].Name)

\* The index loadDB obtains for a source: the cached one, else the fetched
\* one when fetching is allowed.
Available(cache, id, allowFetch) ==
  IF cache[id].ok THEN cache[id]
  ELSE IF allowFetch THEN kRemote[id] ELSE NoDB

\* The i-th source of keys.json can supply the package a call of Resolve
\* asked for: its index lists the name with a version Resolve accepts.
CanSupply(i, call) ==
  LET p == ParseSpec(call.spec)
      db == Available(call.before, kKeys[i], call.allowFetch)
  IN /\ db.ok
     /\ p.name \in DOMAIN db.packages
     /\ ResolveVersion(db.packages[p.name], p.version).ok

Suppliers(call) == {i \in 1..Len(kKeys) : CanSupply(i, call)}

\* C16: a call of Resolve whose spec names no registry returns the package
\* from the earliest source of keys.json that can supply the name and the
\* version, and fails only if no source can.
C16_EarliestSupplier ==
  (kCall.op = "Resolve" /\ kCall.keysOK /\ ParseSpec(kCall.spec).registryID = "") =>
    LET S == Suppliers(kCall)
    IN IF S = {}
       THEN kCall.ret.err # NoErr
       ELSE /\ kCall.ret.err = NoErr
            /\ kCall.ret.pkg.RegistryID = kKeys[EarliestOf(S)]

\* ------------------------------------------------- properties: config
\* The URLs the sources of ResolvedRegistryURLs yield, in priority order:
\* the environment, the loaded list, the legacy field; blank ones dropped.
YieldedUrls ==
  LET c == IF gCfg.nil THEN DefaultConfig ELSE gCfg
      raw == <<gEnv>> \o c.RegistryURLs \o <<c.RegistryURL>>
      trimmed == [i \in 1..Len(raw) |-> TrimSpace(raw[i])]
  IN SelectSeq(trimmed, LAMBDA u : u # <<>>)

FirstAt(s, x) == CHOOSE i \in 1..Len(s) : s[i] = x /\ \A j \in 1..(i - 1) : s[j] # x

\* C17: the list ResolvedRegistryURLs returns is never empty and never holds
\* a URL twice; when the environment, the list or the legacy field yields a
\* URL it holds exactly the yielded URLs, ordered by their first occurrence
\* in that priority order, and otherwise it holds the built-in default alone.
C17_ResolvedUrls ==
  gUrls.called =>
    LET urls == gUrls.urls
        y == YieldedUrls
    IN /\ Len(urls) >= 1
       /\ \A i, j \in 1..Len(urls) : i # j => urls[i] # urls[j]
       /\ IF Len(y) = 0
          THEN urls = <<defaultRegistryURL>>
          ELSE /\ {urls[i] : i \in 1..Len(urls)} = {y[i] : i \in 1..Len(y)}
               /\ \A i, j \in 1..Len(urls) :
                    i < j => FirstAt(y, urls[i]) < FirstAt(y, urls[j])

\* A call in which the environment URL is listed again in the config file,
\* among other URLs.
C17_Witness ==
  /\ gUrls.called
  /\ TrimSpace(gEnv) # <<>>
  /\ \E i \in 1..Len(gCfg.RegistryURLs) :
       gCfg.RegistryURLs[i] # gEnv /\ TrimSpace(gCfg.RegistryURLs[i]) = TrimSpace(gEnv)
  /\ Len(gUrls.urls) >= 2
  /\ gUrls.urls[1] = TrimSpace(gEnv)

\* ---------------------------------------------- properties: manifest
\* C18: AddPackage called with a name some package of the manifest already
\* has returns false and leaves Packages and Dependencies as they were;
\* called with a new name it returns true, appends the package, records the
\* dependency, and HasPackage(name) holds afterwards.
C18_AddOnlyIfAbsent ==
  dCall.op = "AddPackage" =>
    LET b == dCall.before
        declared == \E i \in 1..Len(b.Packages) : b.Packages[i].Name = dCall.name
    IN IF declared
       THEN /\ ~dCall.ret
            /\ dPackages = b.Packages
            /\ dDependencies = b.Dependencies
       ELSE /\ dCall.ret
            /\ dPackages = Append(b.Packages, [Name |-> dCall.name, Version |-> dCall.version])
            /\ dCall.name \in DOMAIN dDependencies
            /\ dDependencies[dCall.name] = dCall.version
            /\ \E i \in 1..Len(dPackages) : dPackages[i].Name = dCall.name

\* AddPackage called for the second of two declared packages, with another
\* version than the declared one.
C18_Witness ==
  /\ dCall.op = "AddPackage"
  /\ ~dCall.ret
  /\ Len(dPackages) = 2
  /\ dPackages[2].Name = dCall.name
  /\ dPackages[2].Version # dCall.version

\* C23: whatever AddPackage and RemovePackage calls are made on a manifest
\* obtained from Default or Load, the names of Packages are the keys of
\* Dependencies.
C23_PackagesMatchDependencies ==
  {dPackages[i].Name : i \in 1..Len(dPackages)} = DOMAIN dDependencies

\* -------------------------------------------------- properties: lock
\* The entries named name among entries.
Named(entries, name) == {i \in 1..Len(entries) : entries[i].Name = name}

\* C19: from the empty lock file, whatever Upsert and Remove calls are made,
\* no two entries have the same name; right after Upsert(e), Get(e.Name)
\* returns e; Remove(name) returns true exactly when an entry named name was
\* there, and right after it Get(name) returns nil.
C19_OneEntryPerName ==
  /\ \A i, j \in 1..Len(lEntries) : i # j => lEntries[i].Name # lEntries[j].Name
  /\ lCall.op = "Upsert" =>
       /\ ~Get(lEntries, lCall.name).nil
       /\ Get(lEntries, lCall.name).entry = lCall.entry
  /\ lCall.op = "Remove" =>
       /\ lCall.ret = (Named(lCall.before, lCall.name) # {})
       /\ Get(lEntries, lCall.name).nil
       /\ Named(lEntries, lCall.name) = {}

\* An Upsert that replaced the entry of one of two locked packages.
C19_Witness ==
  /\ lCall.op = "Upsert"
  /\ Len(lCall.before) = 2
  /\ Len(lEntries) = 2
  /\ Named(lCall.before, lCall.name) # {}
  /\ lEntries # lCall.before

\* ----------------------------------------------- properties: updatedb
\* C20: updatedb never stops short of the end of keys.json: every registry
\* it has got past is counted once, as succeeded or as failed, its
\* packages.json was requested, and when the command returns after parsing
\* keys.json the two counts add up to the number of listed registries.
C20_EveryRegistryCounted ==
  /\ qPc # "panicked"
  /\ qOk + qFail = qIdx - 1
  /\ Len(qFetched) = qIdx - 1
  /\ (qPc = "done" /\ qReturn.err = NoErr) => qOk + qFail = Len(qKeys)

\* ------------------------------------------- properties: sketch name
\* C24: the name sanitizeSketchName returns holds only letters, digits and
\* underscores, and does not start with a digit.
C24_ValidSketchName ==
  sCall.op = "sanitizeSketchName" =>
    /\ \A i \in 1..Len(sCall.ret) : sCall.ret[i] \in Letters \cup Digits \cup {"_"}
    /\ sCall.ret # <<>> => sCall.ret[1] \notin Digits

\* ---------------------------------------------- properties: rebuilds
\* C25: two builds of the same unchanged project pass the same argument
\* list to the transpiler for each file, the order of the names after
\* --packages included.
C25_SameArgsEveryBuild ==
  \A a \in 1..Len(rBuilds), b \in 1..Len(rBuilds) :
    \A i \in 1..Len(rBuilds[a]) :
      i <= Len(rBuilds[b]) => rBuilds[a][i] = rBuilds[b][i]

\* ------------------------------------------- properties: config Set, Get
\* What the documentation says of the keys and the values: the kind of the
\* field a key names, and what a value written for a field of that kind
\* denotes.
KeyKind(key) ==
  CASE key = "default_board" -> "string"
    [] key \in {"default_baud", "DefaultBaud"} -> "int"
    [] key = "verbose" -> "bool"
    [] key = "registry_urls" -> "slice"
    [] OTHER -> "unknown"

Parsable(kind, value) ==
  CASE kind = "bool" -> value \in {<<"t">>, <<"0">>}
    [] kind = "int" -> value \in {<<"0">>, <<"9", "6">>, <<"-", "5">>}
    [] OTHER -> TRUE

Denotes(kind, value) ==
  CASE kind = "bool" -> value = <<"t">>
    [] kind = "int" -> (CASE value = <<"9", "6">> -> 96
                          [] value = <<"-", "5">> -> 0 - 5
                          [] OTHER -> 0)
    [] kind = "slice" -> (IF value = <<"a", ",", " ", "b">> THEN << <<"a">>, <<"b">> >>
                          ELSE <<value>>)
    [] OTHER -> value

\* C26: Set with a key that names no field, or with a value that does not
\* parse as the bool or the int of the field, returns an error and leaves
\* every field as it was; after a Set(key, v) that returned no error, the
\* next Get(key) returns the value v denotes (for a slice of strings, the
\* parts between the commas, trimmed).
C26_SetThenGet ==
  /\ setCall.op = "Set" =>
       LET kind == KeyKind(setCall.key) IN
       /\ (kind = "unknown" \/ ~Parsable(kind, setCall.value)) =>
            (setCall.err # NoErr /\ setCfg = setCall.before)
       /\ (kind # "unknown" /\ Parsable(kind, setCall.value)) => setCall.err = NoErr
  /\ (setCall.op = "Get" /\ setCall.set.ok /\ setCall.set.key = setCall.key) =>
       /\ setCall.err = NoErr
       /\ setCall.val = Denotes(KeyKind(setCall.key), setCall.set.value)

\* A Get of default_baud right after it was set to "96" returned 96.
C26_Witness ==
  /\ setCall.op = "Get" /\ setCall.key = "default_baud"
  /\ setCall.set.ok /\ setCall.set.key = "default_baud"
  /\ setCall.set.value = <<"9", "6">>
  /\ setCall.val = 96

\* ------------------------------------------------------ specifications
\* The build command.
Init == ProjectInit /\ BuildInit /\ CheckIdle /\ UploadIdle /\ EngineIdle /\ RestIdle

Next == BuildStart \/ BuildTranspile \/ BuildWriteStub \/ BuildCompile

Spec == Init /\ [][Next]_vars

\* The check command.
InitCheck ==
  /\ ProjectInit
  /\ libs = {}
  /\ opts = [Compile |-> FALSE, Backend |-> ""]
  /\ BuildIdle
  /\ CheckIdle
  /\ UploadIdle
  /\ EngineIdle
  /\ RestIdle

NextCheck == CheckStart \/ CheckFile \/ CheckReturn

SpecCheck == InitCheck /\ [][NextCheck]_vars

\* The upload command.
InitUpload ==
  /\ goFiles = <<>>
  /\ mPackages = <<>>
  /\ libs = {}
  /\ opts = [Compile |-> FALSE, Backend |-> ""]
  /\ BuildIdle
  /\ CheckIdle
  /\ UploadInit
  /\ EngineIdle
  /\ RestIdle

NextUpload == UploadResolvePort \/ UploadProgram

SpecUpload == InitUpload /\ [][NextUpload]_vars

\* The build engine's compile, run after run.
InitEngine ==
  /\ goFiles = <<>>
  /\ mPackages = <<>>
  /\ libs = {}
  /\ opts = [Compile |-> FALSE, Backend |-> ""]
  /\ BuildIdle
  /\ CheckIdle
  /\ UploadIdle
  /\ EngineInit
  /\ RestIdle

NextEngine ==
  \/ EngEdit
  \/ EngSetFlags
  \/ EngSetSdk
  \/ EngStartRun
  \/ EngBeginCompile
  \/ EngEndCompile
  \/ EngJoin
  \/ EngBeginWrite
  \/ EngEndWrite
  \/ EngLink

SpecEngine == InitEngine /\ [][NextEngine]_vars

\* No command is running.
CommandsIdle ==
  /\ goFiles = <<>>
  /\ mPackages = <<>>
  /\ libs = {}
  /\ opts = [Compile |-> FALSE, Backend |-> ""]
  /\ BuildIdle
  /\ CheckIdle
  /\ UploadIdle
  /\ EngineIdle

\* One run of the transpiler.
InitTranspile ==
  /\ CommandsIdle
  /\ TransInit
  /\ InstallIdle
  /\ RegistryIdle
  /\ DbIdle
  /\ ConfigIdle
  /\ DepIdle
  /\ LockIdle
  /\ UpdatedbIdle
  /\ SketchIdle
  /\ RebuildIdle
  /\ SettingsIdle

NextTranspile == TParse \/ TParseEnd \/ TGen \/ TFinish

SpecTranspile == InitTranspile /\ [][NextTranspile]_vars

\* Package installs, one after another.
InitInstall ==
  /\ CommandsIdle
  /\ InstallIdle
  /\ tSrc = <<>> /\ TransIdle
  /\ RegistryIdle
  /\ DbIdle
  /\ ConfigIdle
  /\ DepIdle
  /\ LockIdle
  /\ UpdatedbIdle
  /\ SketchIdle
  /\ RebuildIdle
  /\ SettingsIdle

NextInstall == InstallFromSource \/ InstallFromSpec

SpecInstall == InitInstall /\ [][NextInstall]_vars

\* One call of FetchAllRegistries.
InitRegistry ==
  /\ CommandsIdle
  /\ RegistryInit
  /\ tSrc = <<>> /\ TransIdle
  /\ InstallIdle
  /\ DbIdle
  /\ ConfigIdle
  /\ DepIdle
  /\ LockIdle
  /\ UpdatedbIdle
  /\ SketchIdle
  /\ RebuildIdle
  /\ SettingsIdle

NextRegistry == FetchRegistry \/ FetchAllReturn

SpecRegistry == InitRegistry /\ [][NextRegistry]_vars

\* The package index: searches and updates.
InitDB ==
  /\ CommandsIdle
  /\ DbInit
  /\ tSrc = <<>> /\ TransIdle
  /\ InstallIdle
  /\ RegistryIdle
  /\ ConfigIdle
  /\ DepIdle
  /\ LockIdle
  /\ UpdatedbIdle
  /\ SketchIdle
  /\ RebuildIdle
  /\ SettingsIdle

NextDB == DbSearch \/ DbUpdateDB

SpecDB == InitDB /\ [][NextDB]_vars

\* The package index: resolutions and updates.
InitResolve ==
  /\ CommandsIdle
  /\ ResolveInit
  /\ tSrc = <<>> /\ TransIdle
  /\ InstallIdle
  /\ RegistryIdle
  /\ ConfigIdle
  /\ DepIdle
  /\ LockIdle
  /\ UpdatedbIdle
  /\ SketchIdle
  /\ RebuildIdle
  /\ SettingsIdle

NextResolve == DbResolve \/ DbUpdateDB

SpecResolve == InitResolve /\ [][NextResolve]_vars

\* Loading the config and resolving the registry URLs.
InitConfig ==
  /\ CommandsIdle
  /\ ConfigInit
  /\ tSrc = <<>> /\ TransIdle
  /\ InstallIdle
  /\ RegistryIdle
  /\ DbIdle
  /\ DepIdle
  /\ LockIdle
  /\ UpdatedbIdle
  /\ SketchIdle
  /\ RebuildIdle
  /\ SettingsIdle

NextConfig == ConfigLoad \/ ConfigResolveURLs

SpecConfig == InitConfig /\ [][NextConfig]_vars

\* Edits of a manifest's dependencies, one after another.
InitDep ==
  /\ CommandsIdle
  /\ DepInit
  /\ tSrc = <<>> /\ TransIdle
  /\ InstallIdle
  /\ RegistryIdle
  /\ DbIdle
  /\ ConfigIdle
  /\ LockIdle
  /\ UpdatedbIdle
  /\ SketchIdle
  /\ RebuildIdle
  /\ SettingsIdle

NextDep == DepAdd \/ DepRemove

SpecDep == InitDep /\ [][NextDep]_vars

\* Calls on a lock file, one after another.
InitLock ==
  /\ CommandsIdle
  /\ LockIdle
  /\ tSrc = <<>> /\ TransIdle
  /\ InstallIdle
  /\ RegistryIdle
  /\ DbIdle
  /\ ConfigIdle
  /\ DepIdle
  /\ UpdatedbIdle
  /\ SketchIdle
  /\ RebuildIdle
  /\ SettingsIdle

NextLock == LockUpsert \/ LockRemove

SpecLock == InitLock /\ [][NextLock]_vars

\* One run of the updatedb command.
InitUpdatedb ==
  /\ CommandsIdle
  /\ UpdatedbInit
  /\ tSrc = <<>> /\ TransIdle
  /\ InstallIdle
  /\ RegistryIdle
  /\ DbIdle
  /\ ConfigIdle
  /\ DepIdle
  /\ LockIdle
  /\ SketchIdle
  /\ RebuildIdle
  /\ SettingsIdle

NextUpdatedb == UpdateDBStart \/ UpdateDBFetch \/ UpdateDBFinish

SpecUpdatedb == InitUpdatedb /\ [][NextUpdatedb]_vars

\* Project names turned into sketch names.
InitSketch ==
  /\ CommandsIdle
  /\ SketchIdle
  /\ tSrc = <<>> /\ TransIdle
  /\ InstallIdle
  /\ RegistryIdle
  /\ DbIdle
  /\ ConfigIdle
  /\ DepIdle
  /\ LockIdle
  /\ UpdatedbIdle
  /\ RebuildIdle
  /\ SettingsIdle

NextSketch == SketchName

SpecSketch == InitSketch /\ [][NextSketch]_vars

\* Builds of one unchanged project, one after another.
InitRebuild ==
  /\ CommandsIdle
  /\ RebuildInit
  /\ tSrc = <<>> /\ TransIdle
  /\ InstallIdle
  /\ RegistryIdle
  /\ DbIdle
  /\ ConfigIdle
  /\ DepIdle
  /\ LockIdle
  /\ UpdatedbIdle
  /\ SketchIdle
  /\ SettingsIdle

NextRebuild == Rebuild

SpecRebuild == InitRebuild /\ [][NextRebuild]_vars

\* Calls of Config.Set and Config.Get, one after another.
InitSettings ==
  /\ CommandsIdle
  /\ SettingsIdle
  /\ tSrc = <<>> /\ TransIdle
  /\ InstallIdle
  /\ RegistryIdle
  /\ DbIdle
  /\ ConfigIdle
  /\ DepIdle
  /\ LockIdle
  /\ UpdatedbIdle
  /\ SketchIdle
  /\ RebuildIdle

NextSettings == SettingsSet \/ SettingsGet

SpecSettings == InitSettings /\ [][NextSettings]_vars

====
